---- MODULE Spec2Model ----
(***************************************************************************)
(* Footprint engine, snapshot store, daily reset, upstream session manager *)
(* and viewer fan-out of backend/main.py.                                  *)
(*                                                                         *)
(* Representation.                                                         *)
(*   - Prices are integers in units of 0.01 (10003 is 100.03).             *)
(*   - Volumes are integers in units of half a lot (Qty(q) is q lots), so  *)
(*     that the code's delta_volume / 2 is exact, as it is in binary       *)
(*     floating point for integral quantities.                             *)
(*   - Times are unix milliseconds counted from a UTC midnight; that       *)
(*     origin is a multiple of every permitted bucket width, so flooring   *)
(*     to a bucket gives the same result as on absolute unix time.         *)
(*   - The IST date string "YYYY-MM-DD" is represented by the number of    *)
(*     the IST day it names.                                               *)
(*   - An optional value is a sequence: None is the empty sequence and     *)
(*     Some(v) has the one element v; the tag None of initiative and       *)
(*     imbalance is the string "None".                                     *)
(*   - time.monotonic() is the variable mono, in milliseconds.             *)
(*   - A coroutine is a process whose position is kept in a variable; one  *)
(*     action is the code between two awaits.                              *)
(*   - A send on a viewer socket raises at once when the socket is broken; *)
(*     otherwise the message is written to the socket (inbox) and the      *)
(*     sender is suspended until its completion, a step of its own.        *)
(*   - serialized is a history variable: the gated broadcasts that have    *)
(*     started, in order; a message carries the number of broadcasts that  *)
(*     had started when it was serialized.                                 *)
(***************************************************************************)
EXTENDS Integers, Sequences, FiniteSets, TLC

None == << >>
Some(v) == <<v>>
Val(o) == o[1]
NoTag == "None"

(***************************************************************************)
(* Configuration (environment variables with defaults in the source; the   *)
(* model runs the program with small caps).                                *)
(***************************************************************************)
MAX_CANDLES_PER_SYMBOL == 2
MAX_LEVELS_PER_CANDLE == 2
IMBALANCE_RATIO == 3
DefaultCandleSeconds == 60
CANDLE_OPTIONS == {60, 300, 600, 900, 1800, 2700, 3600, 7200}

IstOffsetMs == 19800000
DayMs == 86400000

BROADCAST_CANDLES_LIMIT == 2
SubscriptionBatchSize == 1
MAX_ENGINES == 1
\* BROADCAST_MIN_INTERVAL = 0.1 s
BROADCAST_MIN_INTERVAL == 100
InitialReconnectDelay == 5
MaxReconnectDelay == 1800

(***************************************************************************)
(* Bounds of the model.                                                    *)
(***************************************************************************)
MaxTicks == 3
MaxTicksAll == 2
MaxFeedTicks == 2
MaxCapTicks == 4
MaxFrames == 1
MaxMonoSteps == 2
MaxViewTicks == 1
MaxGateTicks == 3
MaxReadFrames == 3
MaxVolTicks == 3
MaxClockSteps == 1
MaxRestarts == 1

(***************************************************************************)
(* Inputs.                                                                 *)
(***************************************************************************)
Symbols == {"NIFTY", "BANKNIFTY"}
SecurityId(sym) == IF sym = "NIFTY" THEN "13" ELSE "25"

\* First IST midnight after the time origin (18:30 UTC).
Midnight1 == DayMs - IstOffsetMs
ClockStepMs == 60 * 1000
ClockStart == Midnight1 - ClockStepMs

TradePrices == {10000, 10003}
Prices == {10000, 10003, 10010}
Spreads == {<<0, 0>>, <<10000, 10005>>}
Quantities == {-1, 0, 1}
CumVolumes == {None, Some(1), Some(2)}
VolQuantities == {1, 3}
\* values of the environment variable BROADCAST_CANDLES_LIMIT
CandleLimits == {0, 1, 2}
VolCumVolumes == {None, Some(0), Some(2), Some(5)}
OiValues == {None, Some(5)}
PolledOi == {0, 5}
Timestamps == {Midnight1 - 60000, Midnight1}
SecondsChoices == {60, 300, 120}

Viewers == {"w1", "w2"}
Tasks == {"feed", "oi"}
NoCredential == ""
Tokens == {"t0", "t1"}
MonoStart == 1000
MonoStepMs == 50
\* values of the environment variable IMBALANCE_RATIO
Ratios == {1, 2, 3}
\* upstream text frames whose handling raises
BadFrames == {"text", "value", "field"}
SecurityIds == {"13", "25"}
Batches == {<<<<"NIFTY", "13">>, <<"BANKNIFTY", "25">>>>,
            <<<<"BANKNIFTY", "13">>, <<"NIFTY", "13">>>>}
\* inbound viewer frames: {"type":"ping"}, another JSON object, a JSON value
\* that is not an object, text that is not JSON
Frames == {"ping", "object", "value", "text"}
DemoPrices == {10000, 10005}
DemoVolumes == {50}

Qty(q) == q + q

Max2(a, b) == IF a >= b THEN a ELSE b
Min2(a, b) == IF a <= b THEN a ELSE b

RECURSIVE SumOver(_, _)
SumOver(f, S) ==
    IF S = {} THEN 0
    ELSE LET x == CHOOSE y \in S : TRUE
         IN f[x] + SumOver(f, S \ {x})

MinOf(S) == CHOOSE x \in S : \A y \in S : x <= y

\* variant: the oldest n elements are kept
FirstN(seq, n) ==
    IF Len(seq) <= n THEN seq
    ELSE SubSeq(seq, 1, n)

\* seq[-n:] for n >= 0 (seq[-0:] is the whole sequence)
LastN(seq, n) ==
    IF Len(seq) <= n \/ n = 0 THEN seq
    ELSE SubSeq(seq, Len(seq) - n + 1, Len(seq))

(***************************************************************************)
(* Data structures.                                                        *)
(***************************************************************************)
FootprintLevel(p) == [price |-> p, buy_vol |-> 0, sell_vol |-> 0]

LevelDelta(lv) == lv.buy_vol - lv.sell_vol
LevelTotalVol(lv) == lv.buy_vol + lv.sell_vol

\* variant: the side without volume is not tested
ImbalanceUnguarded(buy_vol, sell_vol, ratio) ==
    IF buy_vol > 0 /\ buy_vol >= ratio * sell_vol THEN "buy"
    ELSE IF sell_vol > 0 /\ sell_vol >= ratio * buy_vol THEN "sell"
    ELSE NoTag

\* FootprintLevel.imbalance with IMBALANCE_RATIO = ratio;
\* buy_vol / sell_vol >= R under sell_vol > 0 is buy_vol >= R * sell_vol
Imbalance(buy_vol, sell_vol, ratio) ==
    IF sell_vol > 0 /\ buy_vol >= ratio * sell_vol THEN "buy"
    ELSE IF buy_vol > 0 /\ sell_vol >= ratio * buy_vol THEN "sell"
    ELSE NoTag

LevelImbalance(lv) == Imbalance(lv.buy_vol, lv.sell_vol, IMBALANCE_RATIO)

EmptyLevels == [p \in {} |-> FootprintLevel(p)]

FootprintCandle(ot, o, h, l, c) ==
    [open_time |-> ot, open |-> o, high |-> h, low |-> l, close |-> c,
     buy_vol |-> 0, sell_vol |-> 0, levels |-> EmptyLevels, closed |-> FALSE,
     delta_open |-> 0, delta_min |-> 0, delta_max |-> 0,
     initiative |-> NoTag, oi |-> 0, oi_change |-> 0]

CandleDelta(c) == c.buy_vol - c.sell_vol

OrderFlowEngine(sym, sid) ==
    [symbol |-> sym, security_id |-> sid,
     candles |-> << >>, current_candle |-> None,
     last_ltp |-> 0, last_bid |-> 0, last_ask |-> 0,
     cvd |-> 0, tick_count |-> 0, prev_volume |-> 0,
     prev_total_buy |-> 0, prev_total_sell |-> 0, last_oi |-> 0]

(***************************************************************************)
(* OrderFlowEngine.process_tick                                            *)
(***************************************************************************)
CandleStart(ts_ms, candle_seconds) ==
    LET cs == candle_seconds * 1000 IN (ts_ms \div cs) * cs

\* round(ltp * 20) / 20: a price in 0.01 units is never halfway between two
\* grid points, so rounding is to the nearest multiple of 5.
RoundedPrice(ltp) == ((ltp + 2) \div 5) * 5

UsesCumulative(eng, cumulative_volume) ==
    cumulative_volume # None /\ eng.prev_volume > 0

DeltaVolume(eng, vol, cumulative_volume) ==
    IF UsesCumulative(eng, cumulative_volume)
    THEN Max2(Qty(Val(cumulative_volume)) - eng.prev_volume, 0)
    ELSE Qty(vol)

\* variant: the baseline is stored only where the difference is taken
PrevVolumeAfterDifference(eng, cumulative_volume) ==
    IF UsesCumulative(eng, cumulative_volume) THEN Qty(Val(cumulative_volume))
    ELSE eng.prev_volume

PrevVolumeAfter(eng, cumulative_volume) ==
    IF cumulative_volume # None THEN Qty(Val(cumulative_volume)) ELSE eng.prev_volume

\* variant: the half is credited to buy only
HalfSplitBuyOnly(dv) == <<dv \div 2, 0>>

\* buy_vol_add = sell_vol_add = delta_volume / 2
HalfSplit(dv) == <<dv \div 2, dv \div 2>>

\* variant: a trade at the bid is not a sell
AtBidStrict(ltp, bid) == ltp < bid

\* "elif ltp <= bid"
AtBid(ltp, bid) == ltp <= bid

\* <<buy_vol_add, sell_vol_add>>
Classify(last_ltp, ltp, bid, ask, dv) ==
    IF dv > 0 /\ last_ltp > 0
    THEN IF ltp > last_ltp THEN <<dv, 0>>
         ELSE IF ltp < last_ltp THEN <<0, dv>>
         ELSE IF bid # 0 /\ ask # 0 /\ bid # ask
              THEN IF ltp >= ask THEN <<dv, 0>>
                   ELSE IF AtBid(ltp, bid) THEN <<0, dv>>
                   ELSE HalfSplit(dv)
              ELSE HalfSplit(dv)
    ELSE IF ltp > last_ltp THEN <<dv, 0>>
         ELSE IF ltp < last_ltp THEN <<0, dv>>
         ELSE LET twiceMid == IF bid # 0 /\ ask # 0 THEN bid + ask ELSE ltp + ltp
              IN IF ltp + ltp >= twiceMid THEN <<dv, 0>> ELSE <<0, dv>>

\* variant: a candle without delta counts as bought
InitiativeNonNegative(c) ==
    IF CandleDelta(c) >= 0 THEN "buy" ELSE "sell"

Initiative(c) ==
    IF CandleDelta(c) > 0 THEN "buy"
    ELSE IF CandleDelta(c) < 0 THEN "sell"
    ELSE NoTag

CloseCandle(c) == [c EXCEPT !.initiative = Initiative(c), !.closed = TRUE]

Rolls(eng, candle_ts) ==
    \/ eng.current_candle = None
    \/ Val(eng.current_candle).open_time # candle_ts

\* the engine after the "Roll candle" block
RollCandle(eng, candle_ts, ltp) ==
    IF ~Rolls(eng, candle_ts) THEN eng
    ELSE IF eng.current_candle = None
    THEN [eng EXCEPT
            !.current_candle = Some(FootprintCandle(candle_ts, ltp, ltp, ltp, ltp))]
    ELSE [eng EXCEPT
            !.candles = LastN(Append(eng.candles, CloseCandle(Val(eng.current_candle))),
                              MAX_CANDLES_PER_SYMBOL),
            !.last_oi = Val(eng.current_candle).oi,
            !.current_candle = Some(FootprintCandle(candle_ts, ltp, ltp, ltp, ltp))]

\* variant: a full candle drops its highest level
LevelsWithHighestEvicted(levels, rounded_price) ==
    IF rounded_price \in DOMAIN levels THEN levels
    ELSE LET kept == IF Cardinality(DOMAIN levels) >= MAX_LEVELS_PER_CANDLE
                     THEN DOMAIN levels \ {CHOOSE x \in DOMAIN levels :
                                               \A y \in DOMAIN levels : y <= x}
                     ELSE DOMAIN levels
         IN [p \in kept \cup {rounded_price} |->
                IF p = rounded_price THEN FootprintLevel(rounded_price) ELSE levels[p]]

\* the level map after the level at rounded_price has been looked up or created
LevelsWith(levels, rounded_price) ==
    IF rounded_price \in DOMAIN levels THEN levels
    ELSE LET kept == IF Cardinality(DOMAIN levels) >= MAX_LEVELS_PER_CANDLE
                     THEN DOMAIN levels \ {MinOf(DOMAIN levels)}
                     ELSE DOMAIN levels
         IN [p \in kept \cup {rounded_price} |->
                IF p = rounded_price THEN FootprintLevel(rounded_price) ELSE levels[p]]

\* variant: the high follows the last price
CandleHighLatest(c, ltp) == ltp

\* c.high = max(c.high, ltp)
CandleHigh(c, ltp) == Max2(c.high, ltp)

\* c.low = min(c.low, ltp)
CandleLow(c, ltp) == Min2(c.low, ltp)

\* variant: the minimum follows the last delta
DeltaMinLatest(c, d) == d

\* c.delta_min = min(c.delta_min, d)
DeltaMin(c, d) == Min2(c.delta_min, d)

\* the open candle after the tick's price, volume and open interest are applied
UpdateCandle(c, ltp, adds, oi, last_oi) ==
    LET rounded_price == RoundedPrice(ltp)
        lvls == LevelsWith(c.levels, rounded_price)
        buy == c.buy_vol + adds[1]
        sell == c.sell_vol + adds[2]
        d == buy - sell
        hasOi == oi # None /\ Val(oi) > 0
        oiv == IF hasOi THEN Val(oi) ELSE 0
    IN [c EXCEPT
          !.high = CandleHigh(c, ltp),
          !.low = CandleLow(c, ltp),
          !.close = ltp,
          !.levels = [lvls EXCEPT ![rounded_price] =
                         [@ EXCEPT !.buy_vol = @ + adds[1], !.sell_vol = @ + adds[2]]],
          !.buy_vol = buy,
          !.sell_vol = sell,
          !.delta_min = DeltaMin(c, d),
          !.delta_max = Max2(c.delta_max, d),
          !.oi = IF hasOi THEN oiv ELSE c.oi,
          !.oi_change = IF hasOi THEN oiv - last_oi ELSE c.oi_change]

process_tick(eng, ltp, bid, ask, vol, ts_ms, cumulative_volume, oi, candle_seconds) ==
    LET dv == DeltaVolume(eng, vol, cumulative_volume)
        adds == Classify(eng.last_ltp, ltp, bid, ask, dv)
        candle_ts == CandleStart(ts_ms, candle_seconds)
        rolled == RollCandle(eng, candle_ts, ltp)
    IN [rolled EXCEPT
          !.prev_volume = PrevVolumeAfter(eng, cumulative_volume),
          !.current_candle = Some(UpdateCandle(Val(rolled.current_candle), ltp, adds,
                                               oi, rolled.last_oi)),
          !.cvd = eng.cvd + adds[1] - adds[2],
          !.last_ltp = ltp]

(***************************************************************************)
(* OrderFlowEngine.update_oi                                               *)
(***************************************************************************)
\* variant: without an open candle the last closed candle takes the value
update_oi_last_closed(eng, oi) ==
    IF oi = None THEN eng
    ELSE IF Val(oi) <= 0 THEN eng
    ELSE IF eng.current_candle = None
    THEN IF eng.candles = << >> THEN eng
         ELSE [eng EXCEPT !.candles[Len(eng.candles)] =
                  [@ EXCEPT !.oi = Val(oi), !.oi_change = Val(oi) - eng.last_oi]]
    ELSE [eng EXCEPT !.current_candle =
             Some([Val(@) EXCEPT !.oi = Val(oi), !.oi_change = Val(oi) - eng.last_oi])]

update_oi(eng, oi) ==
    IF oi = None THEN eng
    ELSE IF Val(oi) <= 0 THEN eng
    ELSE IF eng.current_candle = None THEN eng
    ELSE [eng EXCEPT !.current_candle =
             Some([Val(@) EXCEPT !.oi = Val(oi), !.oi_change = Val(oi) - eng.last_oi])]

(***************************************************************************)
(* Local time (IST, UTC+05:30).                                            *)
(***************************************************************************)
\* _ist_date_str: the IST calendar day that contains instant t
IstDate(t) == (t + IstOffsetMs) \div DayMs

\* _ist_midnight_ms: start of that IST day
IstMidnightMs(t) == IstDate(t) * DayMs - IstOffsetMs

(***************************************************************************)
(* Snapshot files: FootprintCandle.to_dict, json.dump / json.load and the  *)
(* candle rebuilt by load_all_snapshots.                                   *)
(***************************************************************************)
\* str(p) of a level key and float(p_str) of it
PriceStr(p) == <<"str", p>>
ParsePrice(p_str) == p_str[2]

LevelToDict(lv) ==
    [price |-> lv.price, buy_vol |-> lv.buy_vol, sell_vol |-> lv.sell_vol,
     delta |-> LevelDelta(lv), total_vol |-> LevelTotalVol(lv),
     imbalance |-> LevelImbalance(lv)]

to_dict(c) ==
    [open_time |-> c.open_time, open |-> c.open, high |-> c.high, low |-> c.low,
     close |-> c.close, buy_vol |-> c.buy_vol, sell_vol |-> c.sell_vol,
     delta |-> CandleDelta(c), delta_open |-> c.delta_open,
     delta_min |-> c.delta_min, delta_max |-> c.delta_max,
     initiative |-> c.initiative,
     levels |-> [k \in {PriceStr(p) : p \in DOMAIN c.levels} |->
                    LevelToDict(c.levels[ParsePrice(k)])],
     closed |-> c.closed, oi |-> c.oi, oi_change |-> c.oi_change]

RECURSIVE SumDeltas(_)
SumDeltas(cs) ==
    IF cs = << >> THEN 0 ELSE CandleDelta(Head(cs)) + SumDeltas(Tail(cs))

\* OrderFlowEngine.get_state: the closed candles of the window, each with the
\* running cvd of the window, then the open candle
get_state(eng, limit) ==
    LET all_candles == IF Len(eng.candles) > limit THEN LastN(eng.candles, limit)
                       ELSE eng.candles
        candle_dicts == [i \in 1..Len(all_candles) |->
                            to_dict(all_candles[i])
                                @@ [cvd |-> SumDeltas(SubSeq(all_candles, 1, i))]]
        running == SumDeltas(all_candles)
        live == IF eng.current_candle = None THEN << >>
                ELSE <<to_dict(Val(eng.current_candle))
                          @@ [cvd |-> running + CandleDelta(Val(eng.current_candle))]>>
    IN [symbol |-> eng.symbol, ltp |-> eng.last_ltp, bid |-> eng.last_bid,
        ask |-> eng.last_ask, cvd |-> eng.cvd, tick_count |-> eng.tick_count,
        candles |-> candle_dicts \o live]

\* the FootprintCandle that load_all_snapshots builds from one candle dict
CandleFromDict(cd) ==
    [open_time |-> cd.open_time, open |-> cd.open, high |-> cd.high, low |-> cd.low,
     close |-> cd.close, buy_vol |-> cd.buy_vol, sell_vol |-> cd.sell_vol,
     delta_open |-> cd.delta_open, delta_min |-> cd.delta_min,
     delta_max |-> cd.delta_max, initiative |-> cd.initiative,
     oi |-> cd.oi, oi_change |-> cd.oi_change, closed |-> TRUE,
     levels |-> [p \in {ParsePrice(k) : k \in DOMAIN cd.levels} |->
                    [price |-> p,
                     buy_vol |-> cd.levels[PriceStr(p)].buy_vol,
                     sell_vol |-> cd.levels[PriceStr(p)].sell_vol]]]

\* variant: candles of earlier days are restored too
IsRestorableAnyDay(cd, today_start) == cd.closed

\* a candle dict is restored when it is closed and of today
IsRestorable(cd, today_start) == cd.closed /\ ~(cd.open_time < today_start)

RECURSIVE RestoredFrom(_, _)
\* the list "restored" built from the candle dicts of one file
RestoredFrom(candle_dicts, today_start) ==
    IF candle_dicts = << >> THEN << >>
    ELSE LET cd == Head(candle_dicts)
             rest == RestoredFrom(Tail(candle_dicts), today_start)
         IN IF ~IsRestorable(cd, today_start) THEN rest
            ELSE <<CandleFromDict(cd)>> \o rest

\* the engine after load_all_snapshots has read its file
LoadEngine(eng, candle_dicts, today_start) ==
    LET restored == RestoredFrom(candle_dicts, today_start)
    IN IF restored = << >> THEN eng
       ELSE [eng EXCEPT
               !.candles = LastN(restored, MAX_CANDLES_PER_SYMBOL),
               !.cvd = SumDeltas(LastN(restored, MAX_CANDLES_PER_SYMBOL))]

\* save_symbol_snapshot: the files after the snapshot of one symbol
SaveSymbol(files, engs, sym) ==
    IF sym \notin DOMAIN engs THEN files
    ELSE IF engs[sym].candles = << >> THEN files
    ELSE [f \in DOMAIN files \cup {sym} |->
            IF f = sym
            THEN [i \in 1..Len(engs[sym].candles) |-> to_dict(engs[sym].candles[i])]
            ELSE files[f]]

\* variant: the reset keeps cvd
ResetEngineKeepsCvd(eng) ==
    [eng EXCEPT !.candles = << >>, !.current_candle = None,
                !.prev_volume = 0, !.prev_total_buy = 0, !.prev_total_sell = 0]

\* the engine cleared by _do_daily_reset
ResetEngine(eng) ==
    [eng EXCEPT !.candles = << >>, !.current_candle = None, !.cvd = 0,
                !.prev_volume = 0, !.prev_total_buy = 0, !.prev_total_sell = 0]

(***************************************************************************)
(* State.                                                                  *)
(***************************************************************************)
VARIABLES
    pc,                  \* position of the process: boot, startup steps, running
    engines,             \* symbol -> OrderFlowEngine
    subscribed_symbols,  \* symbol -> registration
    last_reset_date,     \* _last_reset_date
    CANDLE_SECONDS,
    disk,                \* SNAPSHOT_DIR: symbol -> contents of <symbol>.json
    now,                 \* wall clock, ms
    stock_list,          \* symbols of stock_list.csv
    feed_left,           \* ticks the upstream feed still delivers
    tick,                \* the tick handled last
    restarts,            \* restarts of the process so far
    mono,                \* time.monotonic(), ms
    last_broadcast,      \* _last_broadcast: symbol -> mono of its last broadcast
    serialized,          \* history: the gated broadcasts started, in order
    connected_clients,   \* viewer sockets in the viewer set
    viewer,              \* socket -> position of its websocket_endpoint coroutine
    inbox,               \* socket -> messages the viewer has received, in order
    broken,              \* sockets on which a send raises
    fanout,              \* task -> its broadcast_state call in progress, if any
    feed_pc,             \* position of dhan_feed_task
    oi_pc,               \* position of oi_poller_task
    url_token,           \* the token in the url of the connection attempt
    dhan_reconnect_delay,
    dhan_token_event,    \* _dhan_token_event is set
    dhan_ws,             \* _dhan_ws: the open upstream socket, as the set of
                         \* subscription messages sent on it
    DHAN_ACCESS_TOKEN

gateVars == <<mono, last_broadcast, serialized>>
viewVars == <<connected_clients, viewer, inbox, broken, fanout>>
sessVars == <<feed_pc, oi_pc, url_token, dhan_reconnect_delay, dhan_token_event,
              dhan_ws, DHAN_ACCESS_TOKEN>>

vars == <<pc, engines, subscribed_symbols, last_reset_date, CANDLE_SECONDS,
          disk, now, stock_list, feed_left, tick, restarts,
          gateVars, viewVars, sessVars>>

NoFiles == [f \in {} |-> << >>]
NoEngines == [sym \in {} |-> OrderFlowEngine(sym, SecurityId(sym))]
NoSubscriptions == [sym \in {} |-> [security_id |-> "", exchange_segment |-> ""]]
NoBroadcasts == [sym \in {} |-> 0]
NoViewer == [pc |-> "none", n |-> 0, sent |-> {}, frame |-> None, frames |-> 0]

\* the instruments of a registry, one per registered symbol (the order of the
\* dict is not modelled)
RECURSIVE InstrumentsOf(_)
InstrumentsOf(subs) ==
    IF DOMAIN subs = {} THEN << >>
    ELSE LET sym == CHOOSE x \in DOMAIN subs : TRUE
         IN <<[ExchangeSegment |-> subs[sym].exchange_segment,
               SecurityId |-> subs[sym].security_id]>>
            \o InstrumentsOf([x \in DOMAIN subs \ {sym} |-> subs[x]])

\* "for i in range(0, len(instruments), 100)": the subscription messages
\* sent for a list of instruments, one per batch
RECURSIVE SubscriptionMessages(_)
SubscriptionMessages(instruments) ==
    IF instruments = << >> THEN {}
    ELSE LET batch == FirstN(instruments, SubscriptionBatchSize)
         IN {[RequestCode |-> 17, InstrumentCount |-> Len(batch),
              InstrumentList |-> batch]}
            \cup SubscriptionMessages(SubSeq(instruments, Len(batch) + 1, Len(instruments)))

\* the module globals of the gate, the viewer set and the session manager
\* when the process starts at monotonic time m with the given token
FreshGlobals(m, token) ==
    /\ mono = m
    /\ last_broadcast = NoBroadcasts
    /\ serialized = << >>
    /\ connected_clients = {}
    /\ viewer = [v \in Viewers |-> NoViewer]
    /\ inbox = [v \in Viewers |-> << >>]
    /\ broken = {}
    /\ fanout = [t \in Tasks |-> None]
    /\ dhan_reconnect_delay = InitialReconnectDelay
    /\ dhan_token_event = FALSE
    /\ DHAN_ACCESS_TOKEN = token
    /\ dhan_ws = IF feed_pc = "connected"
                 THEN Some(SubscriptionMessages(InstrumentsOf(subscribed_symbols)))
                 ELSE None

Init ==
    /\ pc = "boot"
    /\ engines = NoEngines
    /\ subscribed_symbols = NoSubscriptions
    /\ last_reset_date = None
    /\ CANDLE_SECONDS = DefaultCandleSeconds
    /\ disk = NoFiles
    /\ now = ClockStart
    /\ stock_list = {"NIFTY"}
    /\ feed_left = MaxTicks
    /\ tick = None
    /\ restarts = 0
    /\ feed_pc = "off"
    /\ oi_pc = "off"
    /\ url_token = None
    /\ FreshGlobals(MonoStart, "t0")

(***************************************************************************)
(* startup                                                                 *)
(***************************************************************************)
\* auto_subscribe_from_csv
AutoSubscribe ==
    /\ pc = "boot"
    /\ subscribed_symbols' =
          [sym \in DOMAIN subscribed_symbols \cup stock_list |->
              IF sym \in stock_list
              THEN [security_id |-> SecurityId(sym), exchange_segment |-> "NSE_FNO"]
              ELSE subscribed_symbols[sym]]
    /\ engines' =
          [sym \in DOMAIN engines \cup stock_list |->
              IF sym \in DOMAIN engines THEN engines[sym]
              ELSE OrderFlowEngine(sym, SecurityId(sym))]
    /\ pc' = "startup_reset"
    /\ UNCHANGED <<last_reset_date, CANDLE_SECONDS, disk, now, stock_list, feed_left,
                   tick, restarts, gateVars, viewVars, sessVars>>

\* variant: the first call clears too
ClearsOnResetAlways(lrd) == TRUE

\* "if _last_reset_date is not None": the reset clears only after a first call
ClearsOnReset(lrd) == lrd # None

\* _do_daily_reset, called by startup and by _daily_reset_task
DoDailyReset ==
    /\ pc \in {"startup_reset", "running"}
    /\ pc' = IF pc = "startup_reset" THEN "startup_load" ELSE pc
    /\ LET today == Some(IstDate(now))
       IN IF last_reset_date = today
          THEN UNCHANGED <<engines, disk, last_reset_date>>
          ELSE /\ IF ClearsOnReset(last_reset_date)
                  THEN /\ engines' = [sym \in DOMAIN engines |-> ResetEngine(engines[sym])]
                       /\ disk' = NoFiles
                  ELSE UNCHANGED <<engines, disk>>
               /\ last_reset_date' = today
    /\ UNCHANGED <<subscribed_symbols, CANDLE_SECONDS, now, stock_list, feed_left, tick,
                   restarts, gateVars, viewVars, sessVars>>

\* load_all_snapshots, then startup creates the background tasks; the
\* open-interest poller returns at once when there is no credential
LoadAllSnapshots ==
    /\ pc = "startup_load"
    /\ pc' = "running"
    /\ engines' =
          [sym \in DOMAIN engines |->
              IF sym \in DOMAIN disk
              THEN LoadEngine(engines[sym], disk[sym], IstMidnightMs(now))
              ELSE engines[sym]]
    /\ feed_pc' = "top"
    /\ oi_pc' = IF DHAN_ACCESS_TOKEN = NoCredential THEN "ended" ELSE "polling"
    /\ UNCHANGED <<subscribed_symbols, last_reset_date, CANDLE_SECONDS, disk, now,
                   stock_list, feed_left, tick, restarts, gateVars, viewVars,
                   url_token, dhan_reconnect_delay, dhan_token_event,
                   DHAN_ACCESS_TOKEN>>
    /\ UNCHANGED dhan_ws

(***************************************************************************)
(* The broadcast gate and broadcast_state.                                 *)
(***************************************************************************)
\* {"type": "orderflow", "data": state}; history: by is the coroutine that
\* serialized the message and serial the number of gated broadcasts started
\* up to that moment
OrderflowMsg(eng, by, n) ==
    [type |-> "orderflow", data |-> get_state(eng, BROADCAST_CANDLES_LIMIT),
     by |-> by, serial |-> n]

PongMsg == [type |-> "pong"]

\* list(connected_clients): the sockets of the set in the iteration order of
\* the set, the same for every copy of the same set; the sockets are
\* interchangeable, so one order stands for all
ListOf(S) ==
    LET InS(v) == v \in S IN SelectSeq(<<"w1", "w2">>, InS)

\* variant: the gate opens as soon as the clock has moved
GateOpenOnAnyAdvance(sym) ==
    mono - (IF sym \in DOMAIN last_broadcast THEN last_broadcast[sym] ELSE 0) > 0

\* now - _last_broadcast.get(symbol, 0) >= BROADCAST_MIN_INTERVAL
GateOpen(sym) ==
    mono - (IF sym \in DOMAIN last_broadcast THEN last_broadcast[sym] ELSE 0)
        >= BROADCAST_MIN_INTERVAL

\* variant: the sockets that failed stay in the viewer set
ClientsAfterFanoutKept(clients, dead) == clients

\* connected_clients.difference_update(dead)
ClientsAfterFanout(clients, dead) == clients \ dead

RECURSIVE FanoutFrom(_, _, _, _)
\* the loop of broadcast_state from the socket at the head of todo up to its
\* next await: a send on a broken socket raises and the socket joins dead, a
\* send on another socket writes msg and suspends the loop
FanoutFrom(todo, dead, box, msg) ==
    IF todo = << >> THEN [todo |-> todo, dead |-> dead, inbox |-> box]
    ELSE IF Head(todo) \in broken
    THEN FanoutFrom(Tail(todo), dead \cup {Head(todo)}, box, msg)
    ELSE [todo |-> todo, dead |-> dead,
          inbox |-> [box EXCEPT ![Head(todo)] = Append(@, msg)]]

\* where the loop of a task stands: suspended in the send to the head of
\* r.todo, or finished, and then the dead sockets leave the viewer set
FanoutStep(task, b, r) ==
    /\ inbox' = r.inbox
    /\ IF r.todo = << >>
       THEN /\ fanout' = [fanout EXCEPT ![task] = None]
            /\ connected_clients' = ClientsAfterFanout(connected_clients, r.dead)
       ELSE /\ fanout' = [fanout EXCEPT ![task] =
                             Some([b EXCEPT !.todo = r.todo, !.dead = r.dead])]
            /\ UNCHANGED connected_clients

\* broadcast_state up to its first await: the state is serialized once and
\* the viewer set is copied
BroadcastState(task, sym) ==
    IF sym \notin DOMAIN engines'
    THEN UNCHANGED <<fanout, inbox, connected_clients>>
    ELSE LET order == ListOf(connected_clients)
             b == [symbol |-> sym,
                   msg |-> OrderflowMsg(engines'[sym], task, Len(serialized) + 1),
                   targets |-> order, todo |-> order, dead |-> {}]
         IN FanoutStep(task, b, FanoutFrom(order, {}, inbox, b.msg))

\* the rate gate that follows an engine update of sym in the given task
GatedBroadcast(task, sym) ==
    IF GateOpen(sym)
    THEN /\ last_broadcast' =
               [s \in DOMAIN last_broadcast \cup {sym} |->
                   IF s = sym THEN mono ELSE last_broadcast[s]]
         /\ serialized' = Append(serialized, [symbol |-> sym, at |-> mono])
         /\ BroadcastState(task, sym)
    ELSE UNCHANGED <<last_broadcast, serialized, fanout, inbox, connected_clients>>

(***************************************************************************)
(* Running tasks and handlers.                                             *)
(***************************************************************************)
\* the symbol handle_dhan_tick finds for a security id
SymbolsOf(sid) ==
    {sym \in DOMAIN subscribed_symbols : subscribed_symbols[sym].security_id = sid}

\* handle_dhan_tick for one tick whose fields are drawn from the given sets
HandleTick(prices, spreads, quantities, volumes, ois, timestamps) ==
    /\ pc = "running"
    /\ feed_pc = "connected"
    /\ fanout["feed"] = None
    /\ feed_left > 0
    /\ \E s \in stock_list, ltp \in prices, spread \in spreads, ltq \in quantities,
          volume \in volumes, oi \in ois, ts \in timestamps :
          /\ tick' = Some([sid |-> SecurityId(s), ltp |-> ltp, bid |-> spread[1],
                           ask |-> spread[2], ltq |-> ltq, volume |-> volume,
                           oi |-> oi, ts |-> ts])
          /\ \/ /\ \E sym \in SymbolsOf(SecurityId(s)) :
                      /\ sym \in DOMAIN engines
                      /\ ltp > 0
                      /\ engines' = [engines EXCEPT ![sym] =
                            process_tick(@, ltp, spread[1], spread[2], ltq, ts, volume,
                                         oi, CANDLE_SECONDS)]
                      /\ GatedBroadcast("feed", sym)
             \/ /\ \A sym \in SymbolsOf(SecurityId(s)) : sym \notin DOMAIN engines \/ ltp <= 0
                /\ UNCHANGED <<engines, last_broadcast, serialized, fanout, inbox,
                               connected_clients>>
    /\ feed_left' = feed_left - 1
    /\ UNCHANGED <<pc, subscribed_symbols, last_reset_date, CANDLE_SECONDS, disk, now,
                   stock_list, restarts, mono, viewer, broken, sessVars>>

\* ticks of the running system: trades of one lot, no quote, no cumulative volume
HandleDhanTick ==
    HandleTick(TradePrices, {<<0, 0>>}, {1}, {None}, OiValues, Timestamps)

\* the same ticks without an open interest field
HandleTradeTick ==
    HandleTick(TradePrices, {<<0, 0>>}, {1}, {None}, {None}, Timestamps)

\* oi_poller_task: one quote response that carries an oi for one symbol
OiPoll ==
    /\ pc = "running"
    /\ oi_pc = "polling"
    /\ fanout["oi"] = None
    /\ \E sym \in DOMAIN subscribed_symbols \cap DOMAIN engines, oi_val \in PolledOi :
          IF oi_val > 0
          THEN /\ engines' = [engines EXCEPT ![sym] = update_oi(@, Some(oi_val))]
               /\ GatedBroadcast("oi", sym)
          ELSE UNCHANGED <<engines, last_broadcast, serialized, fanout, inbox,
                           connected_clients>>
    /\ UNCHANGED <<pc, subscribed_symbols, last_reset_date, CANDLE_SECONDS, disk, now,
                   stock_list, feed_left, tick, restarts, mono, viewer, broken,
                   sessVars>>

RECURSIVE SaveAll(_, _, _)
SaveAll(files, engs, syms) ==
    IF syms = {} THEN files
    ELSE LET sym == CHOOSE x \in syms : TRUE
         IN SaveAll(SaveSymbol(files, engs, sym), engs, syms \ {sym})

\* one round of _snapshot_task
SnapshotTask ==
    /\ pc = "running"
    /\ disk' = SaveAll(disk, engines, DOMAIN engines)
    /\ UNCHANGED <<pc, engines, subscribed_symbols, last_reset_date, CANDLE_SECONDS, now,
                   stock_list, feed_left, tick, restarts, gateVars, viewVars, sessVars>>

UpdateSettings ==
    /\ pc = "running"
    /\ \E sec \in SecondsChoices :
          IF sec \notin CANDLE_OPTIONS
          THEN UNCHANGED <<CANDLE_SECONDS, engines>>
          ELSE /\ CANDLE_SECONDS' = sec
               /\ engines' = [sym \in DOMAIN engines |->
                                [engines[sym] EXCEPT !.candles = << >>,
                                                     !.current_candle = None]]
    /\ UNCHANGED <<pc, subscribed_symbols, last_reset_date, disk, now, stock_list,
                   feed_left, tick, restarts, gateVars, viewVars, sessVars>>

\* the wall clock advances
ClockAdvance ==
    /\ now + ClockStepMs <= ClockStart + MaxClockSteps * ClockStepMs
    /\ now' = now + ClockStepMs
    /\ UNCHANGED <<pc, engines, subscribed_symbols, last_reset_date, CANDLE_SECONDS, disk,
                   stock_list, feed_left, tick, restarts, gateVars, viewVars, sessVars>>

\* the process is stopped and started again: memory is lost, the disk is
\* kept, the viewers' sockets are gone
Restart ==
    /\ pc = "running"
    /\ restarts < MaxRestarts
    /\ restarts' = restarts + 1
    /\ pc' = "boot"
    /\ engines' = NoEngines
    /\ subscribed_symbols' = NoSubscriptions
    /\ last_reset_date' = None
    /\ CANDLE_SECONDS' = DefaultCandleSeconds
    /\ tick' = None
    /\ last_broadcast' = NoBroadcasts
    /\ serialized' = << >>
    /\ connected_clients' = {}
    /\ viewer' = [v \in Viewers |->
                    IF viewer[v].pc = "none" THEN viewer[v]
                    ELSE [NoViewer EXCEPT !.pc = "closed"]]
    /\ broken' = broken \cup {v \in Viewers : viewer[v].pc # "none"}
    /\ fanout' = [t \in Tasks |-> None]
    /\ feed_pc' = "off"
    /\ oi_pc' = "off"
    /\ url_token' = None
    /\ dhan_reconnect_delay' = InitialReconnectDelay
    /\ dhan_token_event' = FALSE
    /\ UNCHANGED <<disk, now, stock_list, feed_left, mono, inbox, DHAN_ACCESS_TOKEN>>
    /\ dhan_ws' = None

(***************************************************************************)
(* dhan_feed_task: the upstream session manager.                           *)
(***************************************************************************)
\* the url is built from the current token and the connection attempt starts
FeedDial ==
    /\ pc = "running"
    /\ feed_pc = "top"
    /\ DOMAIN subscribed_symbols # {}
    /\ DHAN_ACCESS_TOKEN # NoCredential
    /\ url_token' = Some(DHAN_ACCESS_TOKEN)
    /\ feed_pc' = "connecting"
    /\ UNCHANGED <<pc, engines, subscribed_symbols, last_reset_date, CANDLE_SECONDS, disk,
                   now, stock_list, feed_left, tick, restarts, gateVars, viewVars,
                   oi_pc, dhan_reconnect_delay, dhan_token_event, DHAN_ACCESS_TOKEN>>
    /\ UNCHANGED dhan_ws

\* the handshake succeeds: the backoff is reset, the registered instruments
\* are sent in batches and the read loop starts
FeedAccepted ==
    /\ feed_pc = "connecting"
    /\ dhan_reconnect_delay' = InitialReconnectDelay
    /\ feed_pc' = "connected"
    /\ UNCHANGED <<pc, engines, subscribed_symbols, last_reset_date, CANDLE_SECONDS, disk,
                   now, stock_list, feed_left, tick, restarts, gateVars, viewVars,
                   oi_pc, url_token, dhan_token_event, DHAN_ACCESS_TOKEN>>
    /\ dhan_ws' = Some(SubscriptionMessages(InstrumentsOf(subscribed_symbols)))

\* the server rejects the token: the rendezvous signal is cleared and the
\* wait of the auth backoff starts
FeedRejected ==
    /\ \/ feed_pc = "connecting"
       \/ feed_pc = "connected" /\ fanout["feed"] = None
    /\ dhan_token_event' = FALSE
    /\ feed_pc' = "backoff"
    /\ UNCHANGED <<pc, engines, subscribed_symbols, last_reset_date, CANDLE_SECONDS, disk,
                   now, stock_list, feed_left, tick, restarts, gateVars, viewVars,
                   oi_pc, url_token, dhan_reconnect_delay, DHAN_ACCESS_TOKEN>>
    /\ dhan_ws' = None

\* any other error of the connection: sleep 5 s
FeedFailed ==
    /\ \/ feed_pc = "connecting"
       \/ feed_pc = "connected" /\ fanout["feed"] = None
    /\ feed_pc' = "retry"
    /\ UNCHANGED <<pc, engines, subscribed_symbols, last_reset_date, CANDLE_SECONDS, disk,
                   now, stock_list, feed_left, tick, restarts, gateVars, viewVars,
                   oi_pc, url_token, dhan_reconnect_delay, dhan_token_event,
                   DHAN_ACCESS_TOKEN>>
    /\ dhan_ws' = None

\* the server closes the connection in order: the read loop ends
FeedClosed ==
    /\ feed_pc = "connected"
    /\ fanout["feed"] = None
    /\ feed_pc' = "top"
    /\ UNCHANGED <<pc, engines, subscribed_symbols, last_reset_date, CANDLE_SECONDS, disk,
                   now, stock_list, feed_left, tick, restarts, gateVars, viewVars,
                   oi_pc, url_token, dhan_reconnect_delay, dhan_token_event,
                   DHAN_ACCESS_TOKEN>>
    /\ dhan_ws' = None

\* variant: the delay is kept when the rendezvous signal ends the wait
DelayAfterWakeKept(delay) == delay

\* _dhan_reconnect_delay = 5 after the signal
DelayAfterWake(delay) == InitialReconnectDelay

\* asyncio.wait_for returns: the token event was set during the wait
FeedBackoffWake ==
    /\ feed_pc = "backoff"
    /\ dhan_token_event
    /\ dhan_reconnect_delay' = DelayAfterWake(dhan_reconnect_delay)
    /\ feed_pc' = "top"
    /\ UNCHANGED <<pc, engines, subscribed_symbols, last_reset_date, CANDLE_SECONDS, disk,
                   now, stock_list, feed_left, tick, restarts, gateVars, viewVars,
                   oi_pc, url_token, dhan_token_event, DHAN_ACCESS_TOKEN>>
    /\ UNCHANGED dhan_ws

\* variant: the doubling has no cap
DelayAfterTimeoutUncapped(delay) == delay * 2

\* min(_dhan_reconnect_delay * 2, 1800)
DelayAfterTimeout(delay) == Min2(delay * 2, MaxReconnectDelay)

\* asyncio.TimeoutError: the delay has passed without the signal
FeedBackoffTimeout ==
    /\ feed_pc = "backoff"
    /\ ~dhan_token_event
    /\ dhan_reconnect_delay' = DelayAfterTimeout(dhan_reconnect_delay)
    /\ feed_pc' = "top"
    /\ UNCHANGED <<pc, engines, subscribed_symbols, last_reset_date, CANDLE_SECONDS, disk,
                   now, stock_list, feed_left, tick, restarts, gateVars, viewVars,
                   oi_pc, url_token, dhan_token_event, DHAN_ACCESS_TOKEN>>
    /\ UNCHANGED dhan_ws

\* the sleep of 5 s after another error is over
FeedRetry ==
    /\ feed_pc = "retry"
    /\ feed_pc' = "top"
    /\ UNCHANGED <<pc, engines, subscribed_symbols, last_reset_date, CANDLE_SECONDS, disk,
                   now, stock_list, feed_left, tick, restarts, gateVars, viewVars,
                   oi_pc, url_token, dhan_reconnect_delay, dhan_token_event,
                   DHAN_ACCESS_TOKEN>>
    /\ UNCHANGED dhan_ws

\* update_token (POST /api/token); an empty token is answered with 400
UpdateToken ==
    /\ pc = "running"
    /\ \E token \in Tokens \cup {NoCredential} :
          IF token = NoCredential
          THEN UNCHANGED <<DHAN_ACCESS_TOKEN, dhan_token_event>>
          ELSE /\ DHAN_ACCESS_TOKEN' = token
               /\ dhan_token_event' = TRUE
    /\ UNCHANGED <<pc, engines, subscribed_symbols, last_reset_date, CANDLE_SECONDS, disk,
                   now, stock_list, feed_left, tick, restarts, gateVars, viewVars,
                   feed_pc, oi_pc, url_token, dhan_reconnect_delay>>
    /\ UNCHANGED dhan_ws

\* no credential: dhan_feed_task hands over to demo_feed_task
FeedDemo ==
    /\ pc = "running"
    /\ feed_pc = "top"
    /\ DOMAIN subscribed_symbols # {}
    /\ DHAN_ACCESS_TOKEN = NoCredential
    /\ feed_pc' = "demo"
    /\ UNCHANGED <<pc, engines, subscribed_symbols, last_reset_date, CANDLE_SECONDS, disk,
                   now, stock_list, feed_left, tick, restarts, gateVars, viewVars,
                   oi_pc, url_token, dhan_reconnect_delay, dhan_token_event,
                   DHAN_ACCESS_TOKEN>>
    /\ UNCHANGED dhan_ws

\* demo_feed_task: one synthetic tick of one symbol, stamped with the wall
\* clock and quoted 0.5 either side of the price
DemoTick ==
    /\ feed_pc = "demo"
    /\ fanout["feed"] = None
    /\ feed_left > 0
    /\ \E sym \in DOMAIN engines, ltp \in DemoPrices, vol \in DemoVolumes :
          /\ tick' = Some([sid |-> engines[sym].security_id, ltp |-> ltp,
                           bid |-> ltp - 50, ask |-> ltp + 50, ltq |-> vol,
                           volume |-> None, oi |-> None, ts |-> now])
          /\ engines' = [engines EXCEPT ![sym] =
                process_tick(@, ltp, ltp - 50, ltp + 50, vol, now, None, None,
                             CANDLE_SECONDS)]
          /\ GatedBroadcast("feed", sym)
    /\ feed_left' = feed_left - 1
    /\ UNCHANGED <<pc, subscribed_symbols, last_reset_date, CANDLE_SECONDS, disk, now,
                   stock_list, restarts, mono, viewer, broken, sessVars>>

\* time.monotonic() advances
MonoAdvance ==
    /\ mono + MonoStepMs <= MonoStart + MaxMonoSteps * MonoStepMs
    /\ mono' = mono + MonoStepMs
    /\ UNCHANGED <<pc, engines, subscribed_symbols, last_reset_date, CANDLE_SECONDS, disk,
                   now, stock_list, feed_left, tick, restarts, last_broadcast,
                   serialized, viewVars, sessVars>>

(***************************************************************************)
(* broadcast_state after its first await, and websocket_endpoint.          *)
(***************************************************************************)
\* the suspended send of broadcast_state completes and the loop goes on
BroadcastSent(task) ==
    /\ fanout[task] # None
    /\ LET b == Val(fanout[task])
       IN FanoutStep(task, b, FanoutFrom(Tail(b.todo), b.dead, inbox, b.msg))
    /\ UNCHANGED <<pc, engines, subscribed_symbols, last_reset_date, CANDLE_SECONDS, disk,
                   now, stock_list, feed_left, tick, restarts, gateVars, viewer,
                   broken, sessVars>>

ClosedViewer == [NoViewer EXCEPT !.pc = "closed"]

\* websocket_endpoint leaves through its finally block
ViewerExit(v, rec, clients) ==
    /\ connected_clients' = clients \ {v}
    /\ viewer' = [viewer EXCEPT ![v] = [ClosedViewer EXCEPT !.frame = rec.frame]]
    /\ broken' = broken \cup {v}
    /\ UNCHANGED inbox

\* one step of "for symbol, engine in engines.items()": the iterator raises
\* when the size of the dict has changed, otherwise the next engine is
\* serialized and its send starts; after the last one the receive loop starts
ViewerLoop(v, rec, clients) ==
    IF Cardinality(DOMAIN engines) # rec.n
    THEN ViewerExit(v, rec, clients)
    ELSE IF DOMAIN engines \ rec.sent = {}
    THEN /\ viewer' = [viewer EXCEPT ![v] = [rec EXCEPT !.pc = "receive"]]
         /\ connected_clients' = clients
         /\ UNCHANGED <<broken, inbox>>
    ELSE IF v \in broken
    THEN ViewerExit(v, rec, clients)
    ELSE \E sym \in DOMAIN engines \ rec.sent :
            /\ viewer' = [viewer EXCEPT ![v] =
                             [rec EXCEPT !.pc = "sending", !.sent = @ \cup {sym}]]
            /\ inbox' = [inbox EXCEPT ![v] =
                            Append(@, OrderflowMsg(engines[sym], v, Len(serialized)))]
            /\ connected_clients' = clients
            /\ UNCHANGED broken

\* ws.accept() returns, the socket joins the viewer set, the initial
\* snapshots start
ViewerConnect(v) ==
    /\ pc = "running"
    /\ viewer[v].pc = "none"
    /\ v \notin broken
    /\ ViewerLoop(v, [NoViewer EXCEPT !.n = Cardinality(DOMAIN engines),
                                      !.frames = MaxFrames],
                  connected_clients \cup {v})
    /\ UNCHANGED <<pc, engines, subscribed_symbols, last_reset_date, CANDLE_SECONDS, disk,
                   now, stock_list, feed_left, tick, restarts, gateVars, fanout,
                   sessVars>>

\* the suspended send of the handler (initial snapshot or pong) completes:
\* the handler sleeps 20 ms, or returns to receive_text
ViewerSent(v) ==
    /\ viewer[v].pc \in {"sending", "pong"}
    /\ viewer' = [viewer EXCEPT ![v] =
                     [@ EXCEPT !.pc = IF @ = "sending" THEN "sleep" ELSE "receive"]]
    /\ UNCHANGED <<pc, engines, subscribed_symbols, last_reset_date, CANDLE_SECONDS, disk,
                   now, stock_list, feed_left, tick, restarts, gateVars,
                   connected_clients, inbox, broken, fanout, sessVars>>

\* asyncio.sleep(0.02) between two initial snapshots is over
ViewerWakes(v) ==
    /\ viewer[v].pc = "sleep"
    /\ ViewerLoop(v, viewer[v], connected_clients)
    /\ UNCHANGED <<pc, engines, subscribed_symbols, last_reset_date, CANDLE_SECONDS, disk,
                   now, stock_list, feed_left, tick, restarts, gateVars, fanout,
                   sessVars>>


\* json.loads(msg) raises on text that is not JSON, and data.get raises on a
\* JSON value that is not an object
FrameRaises(frame) == frame \in {"value", "text"}

\* receive_text returns a frame: a ping starts the pong, another object is
\* dropped, a frame that raises ends the handler
ViewerFrame(v) ==
    /\ viewer[v].pc = "receive"
    /\ v \notin broken
    /\ viewer[v].frames > 0
    /\ \E frame \in Frames :
          LET rec == [viewer[v] EXCEPT !.frame = Some(frame), !.frames = @ - 1]
          IN IF FrameRaises(frame)
             THEN ViewerExit(v, rec, connected_clients)
             ELSE IF frame = "ping"
             THEN /\ viewer' = [viewer EXCEPT ![v] = [rec EXCEPT !.pc = "pong"]]
                  /\ inbox' = [inbox EXCEPT ![v] = Append(@, PongMsg)]
                  /\ UNCHANGED <<connected_clients, broken>>
             ELSE /\ viewer' = [viewer EXCEPT ![v] = rec]
                  /\ UNCHANGED <<connected_clients, broken, inbox>>
    /\ UNCHANGED <<pc, engines, subscribed_symbols, last_reset_date, CANDLE_SECONDS, disk,
                   now, stock_list, feed_left, tick, restarts, gateVars, fanout,
                   sessVars>>

\* the viewer goes away: from now on a send on its socket raises
ViewerGone(v) ==
    /\ viewer[v].pc \notin {"none", "closed"}
    /\ v \notin broken
    /\ broken' = broken \cup {v}
    /\ UNCHANGED <<pc, engines, subscribed_symbols, last_reset_date, CANDLE_SECONDS, disk,
                   now, stock_list, feed_left, tick, restarts, gateVars,
                   connected_clients, viewer, inbox, fanout, sessVars>>

\* receive_text raises WebSocketDisconnect
ViewerDisconnected(v) ==
    /\ viewer[v].pc = "receive"
    /\ v \in broken
    /\ ViewerExit(v, viewer[v], connected_clients)
    /\ UNCHANGED <<pc, engines, subscribed_symbols, last_reset_date, CANDLE_SECONDS, disk,
                   now, stock_list, feed_left, tick, restarts, gateVars, fanout,
                   sessVars>>

Next ==
    \/ AutoSubscribe
    \/ DoDailyReset
    \/ LoadAllSnapshots
    \/ HandleTradeTick
    \/ OiPoll
    \/ SnapshotTask
    \/ UpdateSettings
    \/ ClockAdvance
    \/ Restart
    \/ FeedDial
    \/ FeedAccepted

Spec == Init /\ [][Next]_vars

(***************************************************************************)
(* The same program with a stock list of two symbols.                      *)
(***************************************************************************)
InitAll ==
    /\ pc = "boot"
    /\ engines = NoEngines
    /\ subscribed_symbols = NoSubscriptions
    /\ last_reset_date = None
    /\ CANDLE_SECONDS = DefaultCandleSeconds
    /\ disk = NoFiles
    /\ now = ClockStart
    /\ stock_list = Symbols
    /\ feed_left = MaxTicksAll
    /\ tick = None
    /\ restarts = 0
    /\ feed_pc = "off"
    /\ oi_pc = "off"
    /\ url_token = None
    /\ FreshGlobals(MonoStart, "t0")

\* A last traded price with no depth, one lot a tick, at one price: what every
\* engine holds at the reset matters here, not how its prices differ.
PlainTick ==
    HandleTick({10000}, {<<0, 0>>}, {1}, {None}, {None}, Timestamps)

NextAll ==
    \/ AutoSubscribe
    \/ DoDailyReset
    \/ LoadAllSnapshots
    \/ PlainTick
    \/ OiPoll
    \/ SnapshotTask
    \/ UpdateSettings
    \/ ClockAdvance
    \/ Restart
    \/ FeedDial
    \/ FeedAccepted

SpecAll == InitAll /\ [][NextAll]_vars

(***************************************************************************)
(* One engine under the full variety of ticks: the process has started     *)
(* with a stock list of one symbol and an empty snapshot directory.        *)
(***************************************************************************)
InitTick ==
    /\ pc = "running"
    /\ engines = [sym \in {"NIFTY"} |-> OrderFlowEngine(sym, SecurityId(sym))]
    /\ subscribed_symbols =
          [sym \in {"NIFTY"} |->
              [security_id |-> SecurityId(sym), exchange_segment |-> "NSE_FNO"]]
    /\ last_reset_date = Some(IstDate(ClockStart))
    /\ CANDLE_SECONDS = DefaultCandleSeconds
    /\ disk = NoFiles
    /\ now = ClockStart
    /\ stock_list = {"NIFTY"}
    /\ feed_left = MaxFeedTicks
    /\ tick = None
    /\ restarts = 0
    /\ feed_pc = "connected"
    /\ oi_pc = "polling"
    /\ url_token = Some("t0")
    /\ FreshGlobals(MonoStart, "t0")

FeedTick ==
    HandleTick(Prices, Spreads, Quantities, CumVolumes, {None}, Timestamps)

NextTick == FeedTick \/ OiPoll

SpecTick == InitTick /\ [][NextTick]_vars

(***************************************************************************)
(* The program with a feed long enough to fill the closed sequence beyond  *)
(* its cap: startup, ticks, snapshots and restarts.                        *)
(***************************************************************************)
InitCap ==
    /\ pc = "boot"
    /\ engines = NoEngines
    /\ subscribed_symbols = NoSubscriptions
    /\ last_reset_date = None
    /\ CANDLE_SECONDS = DefaultCandleSeconds
    /\ disk = NoFiles
    /\ now = ClockStart
    /\ stock_list = {"NIFTY"}
    /\ feed_left = MaxCapTicks
    /\ tick = None
    /\ restarts = 0
    /\ feed_pc = "off"
    /\ oi_pc = "off"
    /\ url_token = None
    /\ FreshGlobals(MonoStart, "t0")

NextCap ==
    \/ AutoSubscribe
    \/ DoDailyReset
    \/ LoadAllSnapshots
    \/ HandleDhanTick
    \/ SnapshotTask
    \/ Restart
    \/ FeedDial
    \/ FeedAccepted

SpecCap == InitCap /\ [][NextCap]_vars

(***************************************************************************)
(* The started program with viewers: one engine, the upstream connected,   *)
(* ticks, open-interest polls and the fan-out to the viewer sockets.       *)
(***************************************************************************)
InitView ==
    /\ pc = "running"
    /\ engines = [sym \in {"NIFTY"} |-> OrderFlowEngine(sym, SecurityId(sym))]
    /\ subscribed_symbols =
          [sym \in {"NIFTY"} |->
              [security_id |-> SecurityId(sym), exchange_segment |-> "NSE_FNO"]]
    /\ last_reset_date = Some(IstDate(ClockStart))
    /\ CANDLE_SECONDS = DefaultCandleSeconds
    /\ disk = NoFiles
    /\ now = ClockStart
    /\ stock_list = {"NIFTY"}
    /\ feed_left = MaxViewTicks
    /\ tick = None
    /\ restarts = 0
    /\ feed_pc = "connected"
    /\ oi_pc = "polling"
    /\ url_token = Some("t0")
    /\ FreshGlobals(MonoStart, "t0")

\* a trade of one lot at one price
HandleViewTick ==
    HandleTick({10000}, {<<0, 0>>}, {1}, {None}, {None}, {Midnight1})

NextView ==
    \/ HandleViewTick
    \/ OiPoll
    \/ MonoAdvance
    \/ \E task \in Tasks : BroadcastSent(task)
    \/ \E v \in Viewers : ViewerConnect(v)
    \/ \E v \in Viewers : ViewerSent(v)
    \/ \E v \in Viewers : ViewerWakes(v)
    \/ \E v \in Viewers : ViewerGone(v)
    \/ \E v \in Viewers : ViewerDisconnected(v)

SpecView == InitView /\ [][NextView]_vars

(***************************************************************************)
(* One engine fed with ticks that differ in their quantity and cumulative  *)
(* volume only.                                                            *)
(***************************************************************************)
InitVol ==
    /\ pc = "running"
    /\ engines = [sym \in {"NIFTY"} |-> OrderFlowEngine(sym, SecurityId(sym))]
    /\ subscribed_symbols =
          [sym \in {"NIFTY"} |->
              [security_id |-> SecurityId(sym), exchange_segment |-> "NSE_FNO"]]
    /\ last_reset_date = Some(IstDate(ClockStart))
    /\ CANDLE_SECONDS = DefaultCandleSeconds
    /\ disk = NoFiles
    /\ now = ClockStart
    /\ stock_list = {"NIFTY"}
    /\ feed_left = MaxVolTicks
    /\ tick = None
    /\ restarts = 0
    /\ feed_pc = "connected"
    /\ oi_pc = "polling"
    /\ url_token = Some("t0")
    /\ FreshGlobals(MonoStart, "t0")
VolTick == HandleTick({10000}, {<<0, 0>>}, VolQuantities, VolCumVolumes, {None}, {Midnight1})
NextVol == VolTick
SpecVol == InitVol /\ [][NextVol]_vars

(***************************************************************************)
(* One engine under ticks of several sizes at three prices of the grid,    *)
(* enough to fill a candle beyond its level cap and to move its delta to   *)
(* both sides of zero.                                                     *)
(***************************************************************************)
LevelTick ==
    HandleTick({10000, 10005, 10010}, {<<0, 0>>}, {-1, 1, 3}, {None}, {None}, Timestamps)
NextLevels == LevelTick
SpecLevels == InitVol /\ [][NextLevels]_vars

(***************************************************************************)
(* The read loop of the upstream session: frames that are processed,       *)
(* frames whose handling raises, and the ends of the connection.           *)
(***************************************************************************)
InitRead ==
    /\ pc = "running"
    /\ engines = [sym \in {"NIFTY"} |-> OrderFlowEngine(sym, SecurityId(sym))]
    /\ subscribed_symbols =
          [sym \in {"NIFTY"} |->
              [security_id |-> SecurityId(sym), exchange_segment |-> "NSE_FNO"]]
    /\ last_reset_date = Some(IstDate(ClockStart))
    /\ CANDLE_SECONDS = DefaultCandleSeconds
    /\ disk = NoFiles
    /\ now = ClockStart
    /\ stock_list = {"NIFTY"}
    /\ feed_left = MaxReadFrames
    /\ tick = None
    /\ restarts = 0
    /\ feed_pc = "connected"
    /\ oi_pc = "polling"
    /\ url_token = Some("t0")
    /\ FreshGlobals(MonoStart, "t0")
\* variant: an error of one frame ends the connection like an error of the socket
AfterFrameErrorLeaves(p) == "retry"
\* "except Exception: pass" and "except Exception as e: logger.error(...)"
\* inside the loop: the task stays where it is, in the read loop
AfterFrameError(p) == p
\* one upstream frame whose handling raises before the engine is touched:
\* text that is not JSON (json.loads), a JSON value that is not an object
\* (msg.get), an object whose LTP is not a number (float)
FeedBadFrame ==
    /\ pc = "running"
    /\ feed_pc = "connected"
    /\ fanout["feed"] = None
    /\ feed_left > 0
    /\ \E kind \in BadFrames : tick' = Some([frame |-> kind])
    /\ feed_pc' = AfterFrameError(feed_pc)
    /\ feed_left' = feed_left - 1
    /\ UNCHANGED <<pc, engines, subscribed_symbols, last_reset_date, CANDLE_SECONDS, disk,
                   now, stock_list, restarts, gateVars, viewVars, oi_pc, url_token,
                   dhan_reconnect_delay, dhan_token_event, DHAN_ACCESS_TOKEN>>
    /\ UNCHANGED dhan_ws
ReadTick == HandleTick(TradePrices, {<<0, 0>>}, {1}, {None}, {None}, {Midnight1})
NextRead ==
    \/ ReadTick
    \/ FeedBadFrame
    \/ FeedClosed
    \/ FeedFailed
    \/ FeedRetry
    \/ FeedDial
    \/ FeedAccepted
SpecRead == InitRead /\ [][NextRead]_vars

(***************************************************************************)
(* The subscription endpoints after a start from a stock list of two rows. *)
(***************************************************************************)
\* "symbol not in engines and len(engines) >= MAX_ENGINES"
AtCapacity(engs, sym) ==
    sym \notin DOMAIN engs /\ Cardinality(DOMAIN engs) >= MAX_ENGINES
\* the registration of one accepted instrument: an older one is overwritten
Registered(subs, sym, sid) ==
    [s \in DOMAIN subs \cup {sym} |->
        IF s = sym THEN [security_id |-> sid, exchange_segment |-> "NSE_FNO"]
        ELSE subs[s]]
\* "if symbol not in engines: engines[symbol] = OrderFlowEngine(...)"
WithEngine(engs, sym, sid) ==
    [s \in DOMAIN engs \cup {sym} |->
        IF s \in DOMAIN engs THEN engs[s] ELSE OrderFlowEngine(sym, sid)]
\* subscribe (POST /api/subscribe): 503 at capacity
Subscribe ==
    /\ pc = "running"
    /\ \E sym \in Symbols, sid \in SecurityIds :
          IF AtCapacity(engines, sym)
          THEN UNCHANGED <<subscribed_symbols, engines>>
          ELSE /\ subscribed_symbols' = Registered(subscribed_symbols, sym, sid)
               /\ engines' = WithEngine(engines, sym, sid)
    /\ UNCHANGED <<pc, last_reset_date, CANDLE_SECONDS, disk, now, stock_list, feed_left,
                   tick, restarts, gateVars, viewVars, sessVars>>
RECURSIVE BatchFrom(_, _)
\* the loop of subscribe_batch over its instruments: an instrument at
\* capacity is skipped
BatchFrom(items, st) ==
    IF items = << >> THEN st
    ELSE LET sym == Head(items)[1]
             sid == Head(items)[2]
         IN IF AtCapacity(st.engines, sym) THEN BatchFrom(Tail(items), st)
            ELSE BatchFrom(Tail(items),
                           [subs |-> Registered(st.subs, sym, sid),
                            engines |-> WithEngine(st.engines, sym, sid),
                            new_instruments_for_dhan |->
                                IF sym \in DOMAIN st.engines
                                THEN st.new_instruments_for_dhan
                                ELSE Append(st.new_instruments_for_dhan,
                                            [ExchangeSegment |-> "NSE_FNO",
                                             SecurityId |-> sid])])
\* subscribe_batch (POST /api/subscribe/batch): the instruments that got a
\* new engine are sent on the open socket
SubscribeBatch ==
    /\ pc = "running"
    /\ \E items \in Batches :
          LET st == BatchFrom(items, [subs |-> subscribed_symbols, engines |-> engines,
                                      new_instruments_for_dhan |-> << >>])
          IN /\ subscribed_symbols' = st.subs
             /\ engines' = st.engines
             /\ dhan_ws' = IF dhan_ws = None THEN None
                           ELSE Some(Val(dhan_ws)
                                     \cup SubscriptionMessages(st.new_instruments_for_dhan))
    /\ UNCHANGED <<pc, last_reset_date, CANDLE_SECONDS, disk, now, stock_list, feed_left,
                   tick, restarts, gateVars, viewVars, feed_pc, oi_pc, url_token,
                   dhan_reconnect_delay, dhan_token_event, DHAN_ACCESS_TOKEN>>
\* unsubscribe (DELETE /api/subscribe/{symbol})
Unsubscribe ==
    /\ pc = "running"
    /\ \E sym \in Symbols :
          /\ subscribed_symbols' =
                [s \in DOMAIN subscribed_symbols \ {sym} |-> subscribed_symbols[s]]
          /\ engines' = [s \in DOMAIN engines \ {sym} |-> engines[s]]
    /\ UNCHANGED <<pc, last_reset_date, CANDLE_SECONDS, disk, now, stock_list, feed_left,
                   tick, restarts, gateVars, viewVars, sessVars>>
NextSub ==
    \/ AutoSubscribe
    \/ DoDailyReset
    \/ LoadAllSnapshots
    \/ Subscribe
    \/ SubscribeBatch
    \/ Unsubscribe
    \/ OiPoll
    \/ UpdateSettings
    \/ FeedDial
    \/ FeedAccepted
    \/ FeedClosed
SpecSub == InitAll /\ [][NextSub]_vars

(***************************************************************************)
(* The session manager: one subscription, the connection attempts, their   *)
(* outcomes, the two waits and the token updates of the operator.          *)
(***************************************************************************)
InitFeed ==
    /\ pc = "running"
    /\ engines = [sym \in {"NIFTY"} |-> OrderFlowEngine(sym, SecurityId(sym))]
    /\ subscribed_symbols =
          [sym \in {"NIFTY"} |->
              [security_id |-> SecurityId(sym), exchange_segment |-> "NSE_FNO"]]
    /\ last_reset_date = Some(IstDate(ClockStart))
    /\ CANDLE_SECONDS = DefaultCandleSeconds
    /\ disk = NoFiles
    /\ now = ClockStart
    /\ stock_list = {"NIFTY"}
    /\ feed_left = 0
    /\ tick = None
    /\ restarts = 0
    /\ feed_pc = "top"
    /\ oi_pc = "polling"
    /\ url_token = None
    /\ FreshGlobals(MonoStart, "t0")
NextFeed ==
    \/ FeedDial
    \/ FeedAccepted
    \/ FeedRejected
    \/ FeedFailed
    \/ FeedClosed
    \/ FeedBackoffWake
    \/ FeedBackoffTimeout
    \/ FeedRetry
    \/ UpdateToken
SpecFeed == InitFeed /\ [][NextFeed]_vars
\* asyncio.wait_for returns once the event it waits for is set, and the
\* loop of the task then goes on to its next connection attempt
SpecFeedLive == SpecFeed /\ WF_vars(FeedBackoffWake) /\ WF_vars(FeedDial)

(***************************************************************************)
(* The session manager started with or without a credential: the hand-over *)
(* to the synthetic feed, its ticks and the token updates of the operator. *)
(***************************************************************************)
InitDemo ==
    /\ pc = "running"
    /\ engines = [sym \in {"NIFTY"} |-> OrderFlowEngine(sym, SecurityId(sym))]
    /\ subscribed_symbols =
          [sym \in {"NIFTY"} |->
              [security_id |-> SecurityId(sym), exchange_segment |-> "NSE_FNO"]]
    /\ last_reset_date = Some(IstDate(ClockStart))
    /\ CANDLE_SECONDS = DefaultCandleSeconds
    /\ disk = NoFiles
    /\ now = ClockStart
    /\ stock_list = {"NIFTY"}
    /\ feed_left = MaxGateTicks
    /\ tick = None
    /\ restarts = 0
    /\ feed_pc = "top"
    /\ url_token = None
    /\ \E token \in {NoCredential, "t0"} :
          /\ oi_pc = (IF token = NoCredential THEN "ended" ELSE "polling")
          /\ FreshGlobals(MonoStart, token)
NextDemo ==
    \/ FeedDemo
    \/ DemoTick
    \/ UpdateToken
    \/ FeedDial
    \/ FeedAccepted
    \/ MonoAdvance
\* the event loop runs a task that can run: the manager takes its next step
\* at the top of its loop
SpecDemo == InitDemo /\ [][NextDemo]_vars /\ WF_vars(FeedDial) /\ WF_vars(FeedDemo)

(***************************************************************************)
(* Viewers that connect while the operator subscribes and unsubscribes     *)
(* symbols.                                                                *)
(***************************************************************************)
NextJoin ==
    \/ \E v \in Viewers : ViewerConnect(v)
    \/ \E v \in Viewers : ViewerSent(v)
    \/ \E v \in Viewers : ViewerWakes(v)
    \/ Subscribe
    \/ SubscribeBatch
    \/ Unsubscribe
SpecJoin == InitView /\ [][NextJoin]_vars

(***************************************************************************)
(* The rate gate: one engine, both viewers connected and past their        *)
(* initial snapshots, and the three sources of engine updates. With a      *)
(* credential the upstream is connected and the poller runs; without one   *)
(* the synthetic feed runs and the poller has ended.                       *)
(***************************************************************************)
InitGate ==
    /\ pc = "running"
    /\ engines = [sym \in {"NIFTY"} |-> OrderFlowEngine(sym, SecurityId(sym))]
    /\ subscribed_symbols =
          [sym \in {"NIFTY"} |->
              [security_id |-> SecurityId(sym), exchange_segment |-> "NSE_FNO"]]
    /\ last_reset_date = Some(IstDate(ClockStart))
    /\ CANDLE_SECONDS = DefaultCandleSeconds
    /\ disk = NoFiles
    /\ now = ClockStart
    /\ stock_list = {"NIFTY"}
    /\ feed_left = MaxGateTicks
    /\ tick = None
    /\ restarts = 0
    /\ mono = MonoStart
    /\ last_broadcast = NoBroadcasts
    /\ serialized = << >>
    /\ connected_clients = Viewers
    /\ viewer = [v \in Viewers |->
                    [NoViewer EXCEPT !.pc = "receive", !.n = 1, !.sent = {"NIFTY"},
                                     !.frames = MaxFrames]]
    /\ inbox = [v \in Viewers |-> <<OrderflowMsg(engines["NIFTY"], v, 0)>>]
    /\ broken = {}
    /\ fanout = [t \in Tasks |-> None]
    /\ dhan_reconnect_delay = InitialReconnectDelay
    /\ dhan_token_event = FALSE
    /\ \/ /\ DHAN_ACCESS_TOKEN = "t0"
          /\ url_token = Some("t0")
          /\ feed_pc = "connected"
          /\ oi_pc = "polling"
          /\ dhan_ws = Some(SubscriptionMessages(InstrumentsOf(subscribed_symbols)))
       \/ /\ DHAN_ACCESS_TOKEN = NoCredential
          /\ url_token = None
          /\ feed_pc = "demo"
          /\ oi_pc = "ended"
          /\ dhan_ws = None
NextGate ==
    \/ HandleViewTick
    \/ DemoTick
    \/ OiPoll
    \/ MonoAdvance
    \/ \E task \in Tasks : BroadcastSent(task)
SpecGate == InitGate /\ [][NextGate]_vars
\* time passes and a send that has started completes
SpecGateLive ==
    SpecGate /\ WF_vars(MonoAdvance) /\ \A task \in Tasks : WF_vars(BroadcastSent(task))

(***************************************************************************)
(* The receive loop: the same start, the viewers send frames and go away   *)
(* while ticks and polls are broadcast.                                    *)
(***************************************************************************)
InitPing == InitGate /\ feed_pc = "connected"
NextPing ==
    \/ HandleViewTick
    \/ OiPoll
    \/ \E task \in Tasks : BroadcastSent(task)
    \/ \E v \in Viewers : ViewerFrame(v)
    \/ \E v \in Viewers : ViewerSent(v)
    \/ \E v \in Viewers : ViewerGone(v)
    \/ \E v \in Viewers : ViewerDisconnected(v)
SpecPing == InitPing /\ [][NextPing]_vars

(***************************************************************************)
(* Properties.                                                             *)
(***************************************************************************)
OpenCandles(eng) == IF eng.current_candle = None THEN {} ELSE {Val(eng.current_candle)}
ClosedCandles(eng) == {eng.candles[i] : i \in 1..Len(eng.candles)}
AllCandles(eng) == ClosedCandles(eng) \cup OpenCandles(eng)
OpenDelta(eng) ==
    IF eng.current_candle = None THEN 0 ELSE CandleDelta(Val(eng.current_candle))
LevelBuySum(c) == SumOver([p \in DOMAIN c.levels |-> c.levels[p].buy_vol], DOMAIN c.levels)
LevelSellSum(c) == SumOver([p \in DOMAIN c.levels |-> c.levels[p].sell_vol], DOMAIN c.levels)
Surviving == DOMAIN engines \cap DOMAIN engines'

\* C1: in every reachable state an engine's cvd is the sum of the deltas of
\* its closed candles plus the delta of its open candle.
CvdIdentity ==
    \A sym \in DOMAIN engines :
        engines[sym].cvd = SumDeltas(engines[sym].candles) + OpenDelta(engines[sym])

\* C2: for every candle, open or closed, the buy volumes of its levels sum to
\* the candle's buy_vol and the sell volumes of its levels to its sell_vol.
LevelAggregateConsistency ==
    \A sym \in DOMAIN engines :
        \A c \in AllCandles(engines[sym]) :
            LevelBuySum(c) = c.buy_vol /\ LevelSellSum(c) = c.sell_vol

\* C3: every candle has low <= open <= high, low <= close <= high and
\* low <= high; while a candle stays open its open is fixed, its high never
\* decreases and its low never increases.
OhlcOrdered(c) ==
    /\ c.low <= c.open /\ c.open <= c.high
    /\ c.low <= c.close /\ c.close <= c.high
    /\ c.low <= c.high
OhlcInv == \A sym \in DOMAIN engines : \A c \in AllCandles(engines[sym]) : OhlcOrdered(c)
OhlcStep ==
    \A sym \in Surviving :
        LET e == engines[sym]
            e2 == engines'[sym]
        IN (/\ e.current_candle # None
            /\ e2.current_candle # None
            /\ Val(e2.current_candle).open_time = Val(e.current_candle).open_time
            /\ e2.candles = e.candles)
           => /\ Val(e2.current_candle).open = Val(e.current_candle).open
              /\ Val(e2.current_candle).high >= Val(e.current_candle).high
              /\ Val(e2.current_candle).low <= Val(e.current_candle).low
OhlcSanity == []OhlcInv /\ [][OhlcStep]_vars
OhlcWitness ==
    \E sym \in DOMAIN engines :
        /\ engines[sym].candles # << >>
        /\ engines[sym].current_candle # None
        /\ Val(engines[sym].current_candle).low < Val(engines[sym].current_candle).high
        /\ Val(engines[sym].current_candle).close # Val(engines[sym].current_candle).open

\* C4: a tick or an open-interest update never changes a closed candle: the
\* closed sequence afterwards is the old one, possibly without candles at its
\* head and possibly with the candle that was open appended at its tail.
IsSuffix(new, old) ==
    \E k \in 0..Len(old) : new = SubSeq(old, k + 1, Len(old))
ClosedUntouched(e, e2) ==
    \/ IsSuffix(e2.candles, e.candles)
    \/ /\ e.current_candle # None
       /\ e2.candles # << >>
       /\ e2.candles[Len(e2.candles)].closed
       /\ e2.candles[Len(e2.candles)].open_time = Val(e.current_candle).open_time
       /\ IsSuffix(SubSeq(e2.candles, 1, Len(e2.candles) - 1), e.candles)
BucketMonotonicity ==
    \A sym \in DOMAIN engines :
        \A i, j \in 1..Len(engines[sym].candles) :
            i < j => engines[sym].candles[i].open_time < engines[sym].candles[j].open_time

\* C6: a tick with non-zero traded volume v adds amounts to buy and sell that
\* sum to v, and adds them to the one level of the open candle that lies on
\* the 0.05 grid nearest to the tick's price; no other level changes.
TickedSymbols == {sym \in Surviving : engines'[sym].security_id = Val(tick').sid}
LevelsBefore(e, e2) ==
    IF e.current_candle # None
       /\ Val(e.current_candle).open_time = Val(e2.current_candle).open_time
    THEN Val(e.current_candle).levels
    ELSE EmptyLevels
BuyAt(levels, p) == IF p \in DOMAIN levels THEN levels[p].buy_vol ELSE 0
SellAt(levels, p) == IF p \in DOMAIN levels THEN levels[p].sell_vol ELSE 0
TickAddsToOneLevel(e, e2, t) ==
    LET v == DeltaVolume(e, t.ltq, t.volume)
        c2 == Val(e2.current_candle)
        before == LevelsBefore(e, e2)
    IN v # 0 =>
          \E p \in DOMAIN c2.levels :
              /\ p % 5 = 0 /\ p - t.ltp <= 2 /\ t.ltp - p <= 2
              /\ (c2.levels[p].buy_vol - BuyAt(before, p))
                   + (c2.levels[p].sell_vol - SellAt(before, p)) = v
              /\ \A q \in DOMAIN c2.levels \ {p} :
                    q \in DOMAIN before /\ c2.levels[q] = before[q]
ClassificationTotality ==
    [][feed_left' = feed_left - 1 =>
          \A sym \in TickedSymbols :
              TickAddsToOneLevel(engines[sym], engines'[sym], Val(tick'))]_vars
ClassificationWitness ==
    /\ tick # None
    /\ Val(tick).ltp = 10003
    /\ \E sym \in DOMAIN engines :
          /\ engines[sym].current_candle # None
          /\ 10005 \in DOMAIN Val(engines[sym].current_candle).levels
          /\ Val(engines[sym].current_candle).levels[10005].buy_vol = 1
          /\ Val(engines[sym].current_candle).levels[10005].sell_vol = 1

\* C7: the reset function changes engines and snapshot files only when
\* last_reset_date is set and differs from today; a call on the date of the
\* last reset changes nothing, and the first call of the process only sets
\* last_reset_date to today.
Today == Some(IstDate(now))
ResetIdempotence ==
    [][DoDailyReset =>
          /\ (last_reset_date = Today =>
                 UNCHANGED <<engines, disk, last_reset_date, subscribed_symbols,
                             CANDLE_SECONDS>>)
          /\ (last_reset_date = None =>
                 /\ UNCHANGED <<engines, disk, subscribed_symbols, CANDLE_SECONDS>>
                 /\ last_reset_date' = Today)
          /\ ((engines' # engines \/ disk' # disk) =>
                 last_reset_date # None /\ last_reset_date # Today)]_vars
ResetIdempotenceWitness ==
    /\ pc = "startup_load"
    /\ restarts = 1
    /\ last_reset_date = Today
    /\ DOMAIN disk # {}

SavedThenLoaded(sym) ==
    LET files == SaveSymbol(disk, engines, sym)
        fresh == OrderFlowEngine(sym, SecurityId(sym))
    IN IF sym \in DOMAIN files
       THEN LoadEngine(fresh, files[sym], IstMidnightMs(now))
       ELSE fresh
AllOfToday(eng) == \A c \in ClosedCandles(eng) : c.open_time >= IstMidnightMs(now)
SnapshotRoundTrip ==
    \A sym \in DOMAIN engines :
        AllOfToday(engines[sym]) => SavedThenLoaded(sym).candles = engines[sym].candles

\* C10: right after the startup restore every closed candle of every engine
\* is marked closed and opens at or after the last IST midnight, no closed
\* sequence is longer than MAX_CANDLES_PER_SYMBOL and no engine has an open
\* candle; no snapshot file ever holds an open candle.
FilesHoldClosedOnly ==
    \A f \in DOMAIN disk : \A i \in 1..Len(disk[f]) : disk[f][i].closed
RestoredState ==
    \A sym \in DOMAIN engines :
        /\ \A c \in ClosedCandles(engines[sym]) :
              c.closed /\ c.open_time >= IstMidnightMs(now)
        /\ Len(engines[sym].candles) <= MAX_CANDLES_PER_SYMBOL
        /\ engines[sym].current_candle = None
RestoreOnlyTodayClosed == []FilesHoldClosedOnly /\ [][LoadAllSnapshots => RestoredState']_vars
RestoreWitness ==
    /\ pc = "running"
    /\ restarts = 1
    /\ tick = None
    /\ \E sym \in DOMAIN engines : engines[sym].candles # << >>
    /\ \E f \in DOMAIN disk : \E i \in 1..Len(disk[f]) :
          disk[f][i].open_time < IstMidnightMs(now)

\* C11: the closed sequence of every engine has at most
\* MAX_CANDLES_PER_SYMBOL candles; a tick that closes the open candle puts it
\* at the tail, and the candles before it are the most recent ones of the old
\* sequence, in their order: only candles at the head are dropped.
CandleCapInv ==
    \A sym \in DOMAIN engines : Len(engines[sym].candles) <= MAX_CANDLES_PER_SYMBOL
CandleCapStep(e, e2) ==
    (e.current_candle # None /\ e2.current_candle # None
     /\ Val(e2.current_candle).open_time # Val(e.current_candle).open_time)
    => /\ Len(e2.candles) = Min2(Len(e.candles) + 1, MAX_CANDLES_PER_SYMBOL)
       /\ e2.candles[Len(e2.candles)].open_time = Val(e.current_candle).open_time
       /\ e2.candles[Len(e2.candles)].closed
       /\ \A i \in 1..(Len(e2.candles) - 1) :
             e2.candles[i] = e.candles[Len(e.candles) - (Len(e2.candles) - 1) + i]
CandleCap ==
    []CandleCapInv
    /\ [][feed_left' = feed_left - 1 =>
            \A sym \in Surviving : CandleCapStep(engines[sym], engines'[sym])]_vars
CandleCapWitness ==
    \E sym \in DOMAIN engines :
        LET e == engines[sym]
        IN /\ Len(e.candles) = MAX_CANDLES_PER_SYMBOL
           /\ e.current_candle # None
           /\ feed_left = 0
           /\ e.cvd # SumDeltas(e.candles) + OpenDelta(e)

\* C12: the first tick of a fresh engine (last_ltp = 0) with positive traded
\* volume is classified by the mid rule: all of the volume goes to buy when
\* ltp >= mid and to sell otherwise, where mid is (bid + ask) / 2 when bid
\* and ask are present and ltp when they are not.
MidRuleAdds(ltp, bid, ask, dv) ==
    LET twiceMid == IF bid # 0 /\ ask # 0 THEN bid + ask ELSE ltp + ltp
    IN IF ltp + ltp >= twiceMid THEN <<dv, 0>> ELSE <<0, dv>>
FirstTickByMidRule(e, e2, t) ==
    LET dv == DeltaVolume(e, t.ltq, t.volume)
        c2 == Val(e2.current_candle)
    IN (e.last_ltp = 0 /\ dv > 0 /\ t.ltp > 0)
       => <<c2.buy_vol, c2.sell_vol>> = MidRuleAdds(t.ltp, t.bid, t.ask, dv)
FirstTickMidRule ==
    [][feed_left' = feed_left - 1 =>
          \A sym \in TickedSymbols :
              FirstTickByMidRule(engines[sym], engines'[sym], Val(tick'))]_vars

\* C13: for each symbol any two gated broadcasts start at least
\* BROADCAST_MIN_INTERVAL apart on the monotonic clock, whichever task
\* started them, and an engine update that comes sooner than that after the
\* last broadcast of its symbol changes the engine and sends nothing.
BroadcastSpacingInv ==
    \A i, j \in 1..Len(serialized) :
        (i < j /\ serialized[i].symbol = serialized[j].symbol)
        => serialized[j].at - serialized[i].at >= BROADCAST_MIN_INTERVAL
UpdatedTooSoon(sym) ==
    /\ sym \in DOMAIN engines /\ sym \in DOMAIN engines'
    /\ engines'[sym] # engines[sym]
    /\ sym \in DOMAIN last_broadcast
    /\ mono - last_broadcast[sym] < BROADCAST_MIN_INTERVAL
BroadcastSpacing ==
    /\ []BroadcastSpacingInv
    /\ [][\A sym \in Symbols :
            UpdatedTooSoon(sym)
            => /\ serialized' = serialized
               /\ last_broadcast' = last_broadcast
               /\ inbox' = inbox
               /\ fanout' = fanout]_vars
\* the synthetic feed has made three ticks, of which the second came 50 ms
\* after the first broadcast and was not sent
BroadcastSpacingWitness ==
    /\ feed_pc = "demo"
    /\ feed_left = 0
    /\ Len(serialized) = 2
    /\ serialized[2].at - serialized[1].at = BROADCAST_MIN_INTERVAL

\* C14: a viewer receives the snapshots of a symbol in the order in which
\* they were serialized: a snapshot never follows, on the same socket, a
\* snapshot of the same symbol that was serialized later from another state.
IsSnapshot(m) == m.type = "orderflow"
InOrderDelivery ==
    \A v \in Viewers : \A i, j \in 1..Len(inbox[v]) :
        (/\ i < j
         /\ IsSnapshot(inbox[v][i]) /\ IsSnapshot(inbox[v][j])
         /\ inbox[v][i].data.symbol = inbox[v][j].data.symbol)
        => ~(/\ inbox[v][j].serial < inbox[v][i].serial
             /\ inbox[v][j].data # inbox[v][i].data)

\* C15: on no viewer socket are two sends in progress at the same time,
\* whether of a broadcast, of the initial snapshots or of a pong.
Writers(v) ==
    {t \in Tasks : fanout[t] # None /\ Head(Val(fanout[t]).todo) = v}
        \cup (IF viewer[v].pc \in {"sending", "pong"} THEN {"handler"} ELSE {})
NoConcurrentWrites == \A v \in Viewers : Cardinality(Writers(v)) <= 1

\* C16: when a fan-out finishes, every socket of its copy of the viewer set
\* either has been sent the message or is broken; those that were not sent
\* it are out of the viewer set, and those that were sent it have not been
\* removed by the fan-out.
Delivered(v, msg, box) == \E i \in 1..Len(box[v]) : box[v][i] = msg
FanoutOutcome(task) ==
    LET b == Val(fanout[task])
    IN \A k \in 1..Len(b.targets) :
          LET v == b.targets[k]
          IN /\ Delivered(v, b.msg, inbox') \/ v \in broken'
             /\ ~Delivered(v, b.msg, inbox') => v \notin connected_clients'
             /\ (Delivered(v, b.msg, inbox') /\ v \in connected_clients)
                    => v \in connected_clients'
FanoutRemovesFailed ==
    [][/\ \A task \in Tasks :
             (fanout[task] # None /\ fanout'[task] = None /\ restarts' = restarts)
                => FanoutOutcome(task)
       /\ (Len(serialized') > Len(serialized) /\ fanout' = fanout)
             => /\ connected_clients \subseteq broken
                /\ connected_clients' = {}
                /\ inbox' = inbox]_vars
FanoutWitness ==
    \E v1, v2 \in Viewers :
        /\ viewer[v1].pc \notin {"none", "closed"}
        /\ v1 \notin connected_clients
        /\ v2 \in connected_clients
        /\ \A task \in Tasks : fanout[task] = None
        /\ \E i \in 1..Len(inbox[v2]) :
              /\ IsSnapshot(inbox[v2][i])
              /\ inbox[v2][i].by \in Tasks
              /\ ~Delivered(v1, inbox[v2][i], inbox)

\* C20: a viewer that sends a ping is sent a pong; any other frame of a
\* viewer (another object, a JSON value that is no object, text that is not
\* JSON) gets no reply and leaves the viewer connected and in the viewer set.
FrameReceived(v) ==
    /\ viewer[v].pc = "receive"
    /\ v \notin broken
    /\ viewer'[v] # viewer[v]
FramesHandled ==
    [][\A v \in Viewers :
          FrameReceived(v)
          => IF viewer'[v].frame = Some("ping")
             THEN /\ Len(inbox'[v]) > Len(inbox[v])
                  /\ inbox'[v][Len(inbox'[v])] = PongMsg
             ELSE /\ \A i \in 1..Len(inbox'[v]) : inbox'[v][i] # PongMsg
                  /\ v \in connected_clients'
                  /\ v \notin broken'
                  /\ viewer'[v].pc = "receive"]_vars

\* C17: the auth backoff is always between 5 and 1800 s and one of
\* min(5 * 2^k, 1800); a successful handshake and a wake-up by the token
\* signal set it to 5, an auth failure whose wait times out doubles it up
\* to 1800, and every other step, the other errors included, keeps it.
RECURSIVE BackoffClosure(_)
BackoffClosure(S) ==
    LET T == S \cup {IF d + d < 1800 THEN d + d ELSE 1800 : d \in S}
    IN IF T = S THEN S ELSE BackoffClosure(T)
BackoffValues == BackoffClosure({5})
BackoffInv ==
    /\ dhan_reconnect_delay \in BackoffValues
    /\ dhan_reconnect_delay >= 5 /\ dhan_reconnect_delay <= 1800
BackoffStep ==
    IF feed_pc = "connecting" /\ feed_pc' = "connected"
    THEN dhan_reconnect_delay' = 5
    ELSE IF feed_pc = "backoff" /\ feed_pc' # "backoff"
    THEN IF dhan_token_event
         THEN dhan_reconnect_delay' = 5
         ELSE dhan_reconnect_delay' =
                 (IF 2 * dhan_reconnect_delay < 1800
                  THEN 2 * dhan_reconnect_delay ELSE 1800)
    ELSE dhan_reconnect_delay' = dhan_reconnect_delay
BackoffBounds == []BackoffInv /\ [][BackoffStep]_vars
\* the backoff has reached its cap and the manager waits again
BackoffWitness == feed_pc = "backoff" /\ dhan_reconnect_delay = 1800

\* C18: a token update during the wait of the auth backoff sets the signal;
\* the wait then ends by the signal and not by the timeout, the backoff is
\* 5 s again, and the next connection attempt is made with the token that
\* is current then.
TokenWakeStep ==
    /\ (feed_pc = "backoff" /\ DHAN_ACCESS_TOKEN' # DHAN_ACCESS_TOKEN)
       => (dhan_token_event' /\ feed_pc' = "backoff")
    /\ (feed_pc = "backoff" /\ dhan_token_event /\ feed_pc' # "backoff")
       => (feed_pc' = "top" /\ dhan_reconnect_delay' = InitialReconnectDelay)
    /\ (feed_pc = "top" /\ feed_pc' # "top")
       => (feed_pc' = "connecting" /\ url_token' = Some(DHAN_ACCESS_TOKEN))
TokenWake ==
    /\ [][TokenWakeStep]_vars
    /\ (feed_pc = "backoff" /\ dhan_token_event)
          ~> (feed_pc = "connecting" /\ dhan_reconnect_delay = InitialReconnectDelay)
\* the token was replaced during a wait that follows a timed-out one
TokenWakeWitness ==
    /\ feed_pc = "backoff"
    /\ dhan_token_event
    /\ dhan_reconnect_delay > InitialReconnectDelay
    /\ DHAN_ACCESS_TOKEN = "t1"
    /\ url_token = Some("t0")

\* C19: the number of engines never exceeds MAX_ENGINES, and a step that
\* starts with MAX_ENGINES engines or more creates no engine, on every path
\* that creates engines: subscribe, batch subscribe and the CSV auto-load.
EngineCap ==
    /\ [](Cardinality(DOMAIN engines) <= MAX_ENGINES)
    /\ [][Cardinality(DOMAIN engines) >= MAX_ENGINES
            => DOMAIN engines' \subseteq DOMAIN engines]_vars

\* C21: an error raised while one upstream frame is handled never ends the
\* upstream session: the task stays in the read loop and the next frame is
\* read and processed; the read loop is left only by a step that is not the
\* handling of a frame (the socket closes or fails).
IsBadFrame(t) == t # None /\ "frame" \in DOMAIN Val(t)
FrameHandled == feed_pc = "connected" /\ feed_left' = feed_left - 1
ReadLoopSurvives ==
    /\ [][FrameHandled => feed_pc' = "connected"]_vars
    /\ [][(FrameHandled /\ IsBadFrame(tick')) => engines' = engines]_vars
    /\ [][(feed_pc = "connected" /\ feed_pc' # "connected")
             => (feed_left' = feed_left /\ tick' = tick /\ engines' = engines)]_vars
\* a frame was dropped with an error and the tick after it was processed
ReadLoopWitness ==
    /\ feed_pc = "connected"
    /\ feed_left = MaxReadFrames - 2
    /\ ~IsBadFrame(tick)
    /\ engines["NIFTY"].current_candle # None
    /\ Val(engines["NIFTY"].current_candle).buy_vol
          + Val(engines["NIFTY"].current_candle).sell_vol = Qty(1)

\* C22: for every level and every ratio R the imbalance is "buy" iff
\* sell_vol > 0 and buy_vol >= R * sell_vol, "sell" iff buy_vol > 0 and
\* sell_vol >= R * buy_vol, and none otherwise; a level with no volume on one
\* side is never flagged.
ReachableLevels ==
    UNION {{c.levels[p] : p \in DOMAIN c.levels} :
              c \in UNION {AllCandles(engines[sym]) : sym \in DOMAIN engines}}
BuyFlagged(lv, R) == lv.sell_vol > 0 /\ lv.buy_vol >= R * lv.sell_vol
SellFlagged(lv, R) == lv.buy_vol > 0 /\ lv.sell_vol >= R * lv.buy_vol
ImbalanceRule ==
    \A lv \in ReachableLevels : \A R \in Ratios :
        LET imb == Imbalance(lv.buy_vol, lv.sell_vol, R)
        IN /\ imb = "buy" <=> BuyFlagged(lv, R)
           /\ imb = "sell" <=> SellFlagged(lv, R)
           /\ imb = NoTag <=> (~BuyFlagged(lv, R) /\ ~SellFlagged(lv, R))
\* C22 as amended: "sell" iff the level is not flagged "buy" and
\* buy_vol > 0 and sell_vol >= R * buy_vol.
ImbalanceRuleOrdered ==
    \A lv \in ReachableLevels :
        /\ \A R \in Ratios :
              LET imb == Imbalance(lv.buy_vol, lv.sell_vol, R)
              IN /\ imb = "buy" <=> BuyFlagged(lv, R)
                 /\ imb = "sell" <=> (~BuyFlagged(lv, R) /\ SellFlagged(lv, R))
                 /\ imb = NoTag <=> (~BuyFlagged(lv, R) /\ ~SellFlagged(lv, R))
                 /\ (lv.buy_vol = 0 \/ lv.sell_vol = 0) => imb = NoTag
        /\ LevelImbalance(lv) = Imbalance(lv.buy_vol, lv.sell_vol, IMBALANCE_RATIO)
\* a level with three times the volume on the buy side, flagged at R = 3
ImbalanceWitness ==
    \E lv \in ReachableLevels :
        lv.sell_vol > 0 /\ lv.buy_vol = 3 * lv.sell_vol /\ LevelImbalance(lv) = "buy"

\* C23: a tick with positive traded volume and last_ltp > 0 gives all of the
\* volume to buy when ltp > last_ltp and all to sell when ltp < last_ltp;
\* when ltp = last_ltp and bid and ask are positive and differ, ltp >= ask
\* gives all to buy, ltp <= bid all to sell, and a price inside the spread
\* half to each side.
AddedBy(e, e2) ==
    LET c2 == Val(e2.current_candle)
        same == e.current_candle # None /\ Val(e.current_candle).open_time = c2.open_time
    IN <<c2.buy_vol - (IF same THEN Val(e.current_candle).buy_vol ELSE 0),
         c2.sell_vol - (IF same THEN Val(e.current_candle).sell_vol ELSE 0)>>
HasSpread(t) == t.bid > 0 /\ t.ask > 0 /\ t.bid # t.ask
TickRuleHolds(e, e2, t) ==
    LET dv == DeltaVolume(e, t.ltq, t.volume)
        adds == AddedBy(e, e2)
    IN (dv > 0 /\ e.last_ltp > 0) =>
          /\ t.ltp > e.last_ltp => adds = <<dv, 0>>
          /\ t.ltp < e.last_ltp => adds = <<0, dv>>
          /\ (t.ltp = e.last_ltp /\ HasSpread(t)) =>
                /\ t.ltp >= t.ask => adds = <<dv, 0>>
                /\ t.ltp <= t.bid => adds = <<0, dv>>
                /\ (t.ltp < t.ask /\ t.ltp > t.bid) => (adds[1] = adds[2] /\ adds[1] + adds[2] = dv)
TickRule ==
    [][feed_left' = feed_left - 1 =>
          \A sym \in TickedSymbols :
              TickRuleHolds(engines[sym], engines'[sym], Val(tick'))]_vars
\* two trades of one lot at the bid: the first bought, the second sold
TickRuleWitness ==
    /\ tick # None
    /\ Val(tick).ltp = 10000 /\ Val(tick).bid = 10000 /\ Val(tick).ask = 10005
    /\ \E sym \in DOMAIN engines :
          /\ engines[sym].current_candle # None
          /\ 10000 \in DOMAIN Val(engines[sym].current_candle).levels
          /\ Val(engines[sym].current_candle).levels[10000].buy_vol = Qty(1)
          /\ Val(engines[sym].current_candle).levels[10000].sell_vol = Qty(1)

\* C24: a tick with positive traded volume, ltp = last_ltp > 0 and no valid
\* spread gives the whole volume to one side by the mid rule (buy when
\* ltp >= mid, sell otherwise) and does not split it; with bid = ask = 0 the
\* whole volume goes to buy.
FlatTickByMidRule(e, e2, t) ==
    LET dv == DeltaVolume(e, t.ltq, t.volume)
    IN (dv > 0 /\ e.last_ltp > 0 /\ t.ltp = e.last_ltp /\ ~HasSpread(t))
       => AddedBy(e, e2) = MidRuleAdds(t.ltp, t.bid, t.ask, dv)
FlatTickMidRule ==
    [][feed_left' = feed_left - 1 =>
          \A sym \in TickedSymbols :
              FlatTickByMidRule(engines[sym], engines'[sym], Val(tick'))]_vars

\* C25: the traded volume of a tick is max(0, cumulative_volume - prev_volume)
\* when the tick carries a cumulative volume and prev_volume > 0, and ltq
\* otherwise; after a tick that carries a cumulative volume prev_volume is
\* that volume; and of two consecutive ticks with cumulative volumes, the
\* second not below the first, the second contributes exactly the growth.
Contributed(e, e2) == AddedBy(e, e2)[1] + AddedBy(e, e2)[2]
TradedVolumeRule(e, e2, t) ==
    /\ Contributed(e, e2) =
          (IF t.volume # None /\ e.prev_volume > 0
           THEN Max2(Qty(Val(t.volume)) - e.prev_volume, 0)
           ELSE Qty(t.ltq))
    /\ t.volume # None => e2.prev_volume = Qty(Val(t.volume))
GrowthContributed(e, e2, t) ==
    Contributed(e, e2) = Qty(Val(t.volume)) - Qty(Val(Val(tick).volume))
TickCounted ==
    [][feed_left' = feed_left - 1 =>
          \A sym \in TickedSymbols :
              /\ engines'[sym].last_ltp = Val(tick').ltp
              /\ engines'[sym].tick_count = engines[sym].tick_count + 1]_vars

\* C27: a tick whose bucket start differs from the open_time of the open
\* candle, or that finds no open candle, closes the open candle with
\* initiative buy, sell or none by the sign of its final delta, appends it at
\* the tail of the closed sequence and sets last_oi to its oi; the new open
\* candle starts at floor(ts_ms / bucket_ms) * bucket_ms with
\* open = high = low = close = ltp and holds the flow of this tick only.
BucketStart(ts_ms) == (ts_ms \div (CANDLE_SECONDS * 1000)) * (CANDLE_SECONDS * 1000)
SignTag(d) == IF d > 0 THEN "buy" ELSE IF d < 0 THEN "sell" ELSE NoTag
RollsOver(e, e2, t) ==
    LET c2 == Val(e2.current_candle)
        dv == DeltaVolume(e, t.ltq, t.volume)
        d == c2.buy_vol - c2.sell_vol
    IN (e.current_candle = None \/ Val(e.current_candle).open_time # BucketStart(t.ts))
       => /\ e.current_candle # None =>
                LET c == Val(e.current_candle)
                IN /\ e2.candles # << >>
                   /\ e2.candles[Len(e2.candles)] =
                         [c EXCEPT !.initiative = SignTag(c.buy_vol - c.sell_vol),
                                   !.closed = TRUE]
                   /\ IsSuffix(SubSeq(e2.candles, 1, Len(e2.candles) - 1), e.candles)
                   /\ e2.last_oi = c.oi
          /\ e.current_candle = None => (e2.candles = e.candles /\ e2.last_oi = e.last_oi)
          /\ c2.open_time = BucketStart(t.ts)
          /\ c2.open = t.ltp /\ c2.high = t.ltp /\ c2.low = t.ltp /\ c2.close = t.ltp
          /\ ~c2.closed /\ c2.initiative = NoTag
          /\ c2.buy_vol + c2.sell_vol = dv
          /\ DOMAIN c2.levels = {RoundedPrice(t.ltp)}
          /\ c2.levels[RoundedPrice(t.ltp)].buy_vol = c2.buy_vol
          /\ c2.levels[RoundedPrice(t.ltp)].sell_vol = c2.sell_vol
          /\ c2.delta_min = Min2(0, d) /\ c2.delta_max = Max2(0, d)
BucketRoll ==
    [][feed_left' = feed_left - 1 =>
          \A sym \in TickedSymbols :
              RollsOver(engines[sym], engines'[sym], Val(tick'))]_vars
\* a candle that took an open interest of 5 was closed as a buy candle by a
\* tick of the other bucket
BucketRollWitness ==
    \E sym \in DOMAIN engines :
        LET e == engines[sym]
        IN /\ Len(e.candles) = 1
           /\ e.candles[1].initiative = "buy" /\ e.candles[1].oi = 5
           /\ e.last_oi = 5
           /\ e.current_candle # None
           /\ Val(e.current_candle).open_time # e.candles[1].open_time

\* C28: every candle has at most MAX_LEVELS_PER_CANDLE levels; a tick at a new
\* price that finds the open candle with MAX_LEVELS_PER_CANDLE levels evicts
\* exactly one level, the one with the lowest price, and the level of the
\* tick's price is present afterwards.
LevelCapInv ==
    \A sym \in DOMAIN engines :
        \A c \in AllCandles(engines[sym]) :
            Cardinality(DOMAIN c.levels) <= MAX_LEVELS_PER_CANDLE
EvictsLowest(e, e2, t) ==
    LET before == DOMAIN LevelsBefore(e, e2)
        after == DOMAIN Val(e2.current_candle).levels
        p == RoundedPrice(t.ltp)
    IN (p \notin before /\ Cardinality(before) = MAX_LEVELS_PER_CANDLE)
       => /\ Cardinality(before \ after) = 1
          /\ \A q \in before \ after : \A r \in before : q <= r
          /\ p \in after
          /\ after = (before \ {MinOf(before)}) \cup {p}
LevelEvictionStep ==
    [][feed_left' = feed_left - 1 =>
          \A sym \in TickedSymbols :
              EvictsLowest(engines[sym], engines'[sym], Val(tick'))]_vars
LevelEviction == []LevelCapInv /\ LevelEvictionStep
\* the level at 100.00 was evicted by a tick at 100.10 while the level at
\* 100.05 stayed
LevelEvictionWitness ==
    \E sym \in DOMAIN engines :
        /\ engines[sym].current_candle # None
        /\ DOMAIN Val(engines[sym].current_candle).levels = {10005, 10010}
        /\ Val(engines[sym].current_candle).buy_vol
              + Val(engines[sym].current_candle).sell_vol = Qty(3)

\* C29: in every candle built by process_tick delta_min and delta_max start
\* at 0 and are the running minimum and maximum of the candle's delta over the
\* ticks applied to it, so delta_min <= 0 <= delta_max and
\* delta_min <= delta <= delta_max in every reachable state.
ExtremaBracket(c) ==
    /\ c.delta_min <= 0 /\ 0 <= c.delta_max
    /\ c.delta_min <= c.buy_vol - c.sell_vol
    /\ c.buy_vol - c.sell_vol <= c.delta_max
ExtremaInv ==
    \A sym \in DOMAIN engines : \A c \in AllCandles(engines[sym]) : ExtremaBracket(c)
ExtremaFollow(e, e2) ==
    LET c2 == Val(e2.current_candle)
        d == c2.buy_vol - c2.sell_vol
        continued == /\ e.current_candle # None
                     /\ Val(e.current_candle).open_time = c2.open_time
        lo == IF continued THEN Val(e.current_candle).delta_min ELSE 0
        hi == IF continued THEN Val(e.current_candle).delta_max ELSE 0
    IN /\ c2.delta_min = (IF d < lo THEN d ELSE lo)
       /\ c2.delta_max = (IF d > hi THEN d ELSE hi)
ExtremaStep ==
    [][feed_left' = feed_left - 1 =>
          \A sym \in TickedSymbols : ExtremaFollow(engines[sym], engines'[sym])]_vars
RunningExtrema == []ExtremaInv /\ ExtremaStep
\* a candle whose delta rose above 0 and then fell below it
RunningExtremaWitness ==
    \E sym \in DOMAIN engines :
        /\ engines[sym].current_candle # None
        /\ Val(engines[sym].current_candle).delta_min < 0
        /\ Val(engines[sym].current_candle).delta_max > 0
        /\ Val(engines[sym].current_candle).buy_vol
              < Val(engines[sym].current_candle).sell_vol

\* C30: get_state(limit) emits the last min(limit, number of closed candles)
\* closed candles in sequence order, followed by the open candle if there is
\* one; the cvd of the i-th emitted candle is the sum of the deltas of the
\* emitted candles 1..i, whatever the engine's lifetime cvd.
WithoutCvd(cd) == [f \in DOMAIN cd \ {"cvd"} |-> cd[f]]
RECURSIVE EmittedDelta(_, _)
EmittedDelta(cds, i) == IF i = 0 THEN 0 ELSE cds[i].delta + EmittedDelta(cds, i - 1)
EmitsWindow(e, limit) ==
    LET emitted == get_state(e, limit).candles
        n == Len(e.candles)
        k == Min2(limit, n)
        live == IF e.current_candle = None THEN 0 ELSE 1
    IN /\ Len(emitted) = k + live
       /\ \A i \in 1..k :
             i <= Len(emitted) /\ WithoutCvd(emitted[i]) = to_dict(e.candles[n - k + i])
       /\ live = 1 =>
             WithoutCvd(emitted[Len(emitted)]) = to_dict(Val(e.current_candle))
       /\ \A i \in 1..Len(emitted) : emitted[i].cvd = EmittedDelta(emitted, i)
StateWindowFor(limits) ==
    \A sym \in DOMAIN engines : \A limit \in limits : EmitsWindow(engines[sym], limit)
StateWindow == StateWindowFor(CandleLimits)
\* the same with every limit of at least one candle
StateWindowPositive == StateWindowFor(CandleLimits \ {0})
\* a window of one candle out of two closed ones, in an engine whose lifetime
\* cvd differs from the cvd of the window
StateWindowReached ==
    \E sym \in DOMAIN engines :
        /\ Len(engines[sym].candles) = 2
        /\ engines[sym].current_candle # None
        /\ engines[sym].cvd # get_state(engines[sym], 1).candles[2].cvd

\* C31: after a tick of a symbol has been processed, the ltp, bid and ask that
\* get_state reports are the ltp, bid and ask of that tick.
ReportsTick(e2, t) ==
    LET state == get_state(e2, BROADCAST_CANDLES_LIMIT)
    IN state.ltp = t.ltp /\ state.bid = t.bid /\ state.ask = t.ask
LastQuoteReported ==
    [][feed_left' = feed_left - 1 =>
          \A sym \in TickedSymbols : ReportsTick(engines'[sym], Val(tick'))]_vars
\* the last price alone is the one of the tick
LastPriceReported ==
    [][feed_left' = feed_left - 1 =>
          \A sym \in TickedSymbols :
              get_state(engines'[sym], BROADCAST_CANDLES_LIMIT).ltp = Val(tick').ltp]_vars

\* C32: whenever a positive open interest is written to the open candle, by a
\* tick or by update_oi, the candle's oi_change is that value minus the oi of
\* the engine's most recently closed candle (0 when the engine has no closed
\* candle), also after a snapshot restore and after a daily reset; update_oi
\* with a value <= 0 or without an open candle changes nothing.
OiBaseline(e) == IF e.candles = << >> THEN 0 ELSE e.candles[Len(e.candles)].oi
OiWritten(e, e2) ==
    /\ e2.current_candle # None
    /\ Val(e2.current_candle).oi > 0
    /\ \/ e.current_candle = None
       \/ Val(e.current_candle).open_time # Val(e2.current_candle).open_time
       \/ Val(e.current_candle).oi # Val(e2.current_candle).oi
OiChangeFromLastClosed ==
    [][\A sym \in Surviving :
          /\ OiWritten(engines[sym], engines'[sym]) =>
                Val(engines'[sym].current_candle).oi_change =
                    Val(engines'[sym].current_candle).oi - OiBaseline(engines'[sym])
          /\ \A v \in {None, Some(0)} : update_oi(engines[sym], v) = engines[sym]
          /\ engines[sym].current_candle = None =>
                update_oi(engines[sym], Some(5)) = engines[sym]]_vars

\* C33: while the upstream socket is open, every registered instrument has
\* been sent on it in a subscription message, those registered at connect time
\* in the initial batches and those added later in a subscription delta; no
\* subscription message carries more than the batch size of instruments
\* (100 in the source) and its InstrumentCount is the length of its
\* InstrumentList.
SentInstruments ==
    UNION {{m.InstrumentList[i] : i \in 1..Len(m.InstrumentList)} : m \in Val(dhan_ws)}
RegisteredInstruments ==
    {[ExchangeSegment |-> subscribed_symbols[sym].exchange_segment,
      SecurityId |-> subscribed_symbols[sym].security_id] :
         sym \in DOMAIN subscribed_symbols}
WellFormedMessages ==
    \A m \in Val(dhan_ws) :
        /\ Len(m.InstrumentList) <= SubscriptionBatchSize
        /\ m.InstrumentCount = Len(m.InstrumentList)
AllInstrumentsSent ==
    dhan_ws # None => (WellFormedMessages /\ RegisteredInstruments \subseteq SentInstruments)
\* the messages alone are well formed
SubscriptionsWellFormed == dhan_ws # None => WellFormedMessages
\* two messages have been sent on the open socket
SubscriptionsSent == dhan_ws # None /\ Cardinality(Val(dhan_ws)) = 2

\* C34: every disconnect of the upstream socket that is not an auth failure
\* (reset, timeout, or the server closing the connection) is followed by the
\* fixed sleep of 5 s before the next connection attempt, after which the
\* manager re-enters its loop from the top; no two connection attempts follow
\* each other without a wait.
Attempting == feed_pc \in {"connecting", "connected"}
AttemptEnds == Attempting /\ feed_pc' \notin {"connecting", "connected"}
WaitAfterDisconnect ==
    [][/\ AttemptEnds => feed_pc' \in {"retry", "backoff"}
       /\ feed_pc = "retry" /\ feed_pc' # "retry" => feed_pc' = "top"]_vars

\* C35: without credentials the session manager hands control to the
\* synthetic feed and opens no upstream socket; this lasts only until
\* credentials appear: after a token update supplies them the manager leaves
\* the synthetic mode and opens the upstream socket.
NoSocketWithoutCredentials ==
    DHAN_ACCESS_TOKEN = NoCredential =>
        (feed_pc \notin {"connecting", "connected"} /\ dhan_ws = None)
DemoUntilCredentials ==
    /\ []NoSocketWithoutCredentials
    /\ (feed_pc = "top" /\ DHAN_ACCESS_TOKEN = NoCredential)
          ~> (feed_pc = "demo" \/ DHAN_ACCESS_TOKEN # NoCredential)
    /\ (feed_pc = "demo" /\ DHAN_ACCESS_TOKEN # NoCredential) ~> (feed_pc = "connecting")
\* the hand-over and the closed socket alone
DemoWithoutCredentials ==
    /\ []NoSocketWithoutCredentials
    /\ (feed_pc = "top" /\ DHAN_ACCESS_TOKEN = NoCredential)
          ~> (feed_pc = "demo" \/ DHAN_ACCESS_TOKEN # NoCredential)

\* C36: a newly connected viewer is sent one initial snapshot for every
\* engine that exists when it connects, and a symbol subscribed or
\* unsubscribed while the fan-out is suspended between two sends neither
\* aborts the fan-out nor disconnects the viewer.
InFanout(v) == viewer[v].pc \in {"sending", "sleep"}
FanoutComplete ==
    \A v \in Viewers :
        viewer[v].pc = "receive" => Cardinality(viewer[v].sent) = viewer[v].n
FanoutGoesOn ==
    [][\A v \in Viewers :
          InFanout(v) => (viewer'[v].pc # "closed" /\ v \in connected_clients')]_vars
InitialFanoutTolerant == []FanoutComplete /\ FanoutGoesOn
\* a viewer has received its initial snapshots and reads frames
InitialFanoutDone ==
    \E v \in Viewers : viewer[v].pc = "receive" /\ viewer[v].n = 1 /\ Len(inbox[v]) = 1

\* C37: buy_vol >= 0 and sell_vol >= 0 in every level and every candle, for
\* every tick the decoder can deliver, also a quote whose signed 16-bit
\* last-traded quantity is negative and is taken as the traded volume.
NonNegativeVolumes ==
    \A sym \in DOMAIN engines :
        \A c \in AllCandles(engines[sym]) :
            /\ c.buy_vol >= 0 /\ c.sell_vol >= 0
            /\ \A p \in DOMAIN c.levels :
                  c.levels[p].buy_vol >= 0 /\ c.levels[p].sell_vol >= 0

\* C38: a daily reset removes only the data of the previous trading day: the
\* candles built from ticks that arrived after local midnight, before the poll
\* detected the change of date, are still in the engine after the reset.
ResetClears == DoDailyReset /\ last_reset_date # None /\ last_reset_date # Today
OfToday(c) == c.open_time >= IstMidnightMs(now)
ResetKeepsToday ==
    [][ResetClears =>
          \A sym \in Surviving :
              \A c \in AllCandles(engines[sym]) :
                  OfToday(c) => c \in AllCandles(engines'[sym])]_vars
\* C38 as amended: the reset removes the data of the previous trading day and,
\* with it, the candles and the cvd built from the ticks that arrived after
\* local midnight and before the poll detected the change of date.
ResetDropsToday ==
    [][ResetClears =>
          \A sym \in Surviving :
              /\ \A c \in AllCandles(engines[sym]) :
                    OfToday(c) => c \notin AllCandles(engines'[sym])
              /\ engines'[sym].cvd = 0]_vars
\* the last tick is one of the new day and the reset has emptied the engine
\* that processed it
ResetDropsTodayWitness ==
    /\ last_reset_date = Today
    /\ tick # None
    /\ Val(tick).ts >= IstMidnightMs(now)
    /\ \E sym \in DOMAIN engines :
          /\ engines[sym].security_id = Val(tick).sid
          /\ engines[sym].last_ltp = Val(tick).ltp
          /\ engines[sym].candles = << >>
          /\ engines[sym].current_candle = None
          /\ engines[sym].cvd = 0

\* C39: no token update is lost: when the token is updated after the manager
\* built the url of a connection attempt and before it starts the auth
\* backoff of that attempt, the wait of the backoff still ends by the signal,
\* without waiting for the timeout, and the next attempt uses the new token.
UpdatedSinceUrl == url_token # None /\ Val(url_token) # DHAN_ACCESS_TOKEN
TokenUpdateKept ==
    /\ [](feed_pc = "backoff" /\ UpdatedSinceUrl => dhan_token_event)
    /\ [][feed_pc = "top" /\ feed_pc' = "connecting"
             => url_token' = Some(DHAN_ACCESS_TOKEN)]_vars

\* C40: every engine update is eventually visible to the connected viewers:
\* when a tick is processed while the rate gate is closed and no further tick
\* arrives for the symbol, the state after that tick is still broadcast once
\* the gate interval has elapsed.
SeesLatest(v, sym) ==
    /\ inbox[v] # << >>
    /\ inbox[v][Len(inbox[v])].data = get_state(engines[sym], BROADCAST_CANDLES_LIMIT)
AllSeeLatest ==
    \A sym \in DOMAIN engines : \A v \in connected_clients : SeesLatest(v, sym)
GateElapsed == \A sym \in DOMAIN engines : GateOpen(sym)
UpdatesEventuallyVisible == (feed_left = 0 /\ GateElapsed /\ ~AllSeeLatest) ~> AllSeeLatest
====
